---- MODULE Spec2Model ----
(***************************************************************************)
(* cmakemake: a project tool that keeps a build configuration              *)
(* (CMakeMake.toml), compiles it into CMakeLists.txt, drives cmake, and    *)
(* adds dependencies (find_package, local folders, git submodules, cached  *)
(* git submodules).                                                        *)
(*                                                                         *)
(* One process invocation is modelled: main dispatches on the command,     *)
(* every function of the program is a sequence of steps (one action per    *)
(* step), the file system and the external tools (git, cmake, the prompt   *)
(* library) are the environment.                                           *)
(*                                                                         *)
(* Text is modelled as a sequence of tokens (a Rust String is a tuple of   *)
(* TLA+ strings; the separators "/" and "." are tokens of their own), an   *)
(* Option<T> as a sequence of length 0 (None) or 1 (Some).                 *)
(***************************************************************************)
EXTENDS Integers, Sequences, FiniteSets, TLC

(***************************************************************************)
(* Bounds of the model.                                                    *)
(***************************************************************************)
\* entries of the cache document at start
MaxCache == 2
\* located (find_package) dependencies of a configuration on disk
MaxFind == 2
\* local dependencies of a configuration on disk
MaxLocal == 2
\* project_dependencies names of a configuration on disk
MaxProjectDeps == 2
\* width of the modelled hash (the program's is 64 bits wide)
HashBits == 12

(***************************************************************************)
(* Generic helpers.                                                        *)
(***************************************************************************)
None == <<>>

Some(x) == <<x>>

SeqUpTo(S, n) == UNION {[1..k -> S] : k \in 0..n}

RECURSIVE Concat(_)
Concat(ss) == IF ss = <<>> THEN <<>> ELSE Head(ss) \o Concat(Tail(ss))

\* the sub-sequence of s at the (ascending) positions in idx
RECURSIVE Pick(_, _)
Pick(s, idx) ==
    IF idx = {} THEN <<>>
    ELSE LET m == CHOOSE i \in idx : \A j \in idx : i <= j
         IN  <<s[m]>> \o Pick(s, idx \ {m})

Positions(s, x) == {i \in 1..Len(s) : s[i] = x}

MinOf(S) == CHOOSE i \in S : \A j \in S : i <= j

MaxOf(S) == CHOOSE i \in S : \A j \in S : i >= j

(***************************************************************************)
(* config.rs: the configuration model.                                     *)
(***************************************************************************)
Dot == <<".">>

\* ProjectFiles::all()
ProjectFiles_all ==
    [source_files |-> << <<"GlobRecurse", <<Dot>> >> >>,
     include_dirs |-> << <<"Public", <<Dot>> >> >>,
     exclude_files |-> <<>>]

\* ProjectFiles::root()
ProjectFiles_root ==
    [source_files |-> << <<"Glob", <<Dot>> >> >>,
     include_dirs |-> << <<"Public", <<Dot>> >> >>,
     exclude_files |-> <<>>]

\* ProjectFiles::header()
ProjectFiles_header ==
    [source_files |-> <<>>,
     include_dirs |-> << <<"Interface", <<>> >> >>,
     exclude_files |-> <<>>]

\* LocalType::CMake carries no fields; files/dependencies are left empty
LocalType_CMake ==
    [tag |-> "CMake",
     files |-> [source_files |-> <<>>, include_dirs |-> <<>>, exclude_files |-> <<>>],
     dependencies |-> <<>>]

LocalType_Source(files, dependencies) ==
    [tag |-> "Source", files |-> files, dependencies |-> dependencies]

LocalDependency(path, name, local_type, variables) ==
    [path |-> path, name |-> name, local_type |-> local_type, variables |-> variables]

FindDependency(name, required) ==
    [name |-> name, required |-> required, custom_link_name |-> None]

GitSubmodule(repo, tag, branch, local_setup) ==
    [repo |-> repo, tag |-> tag, branch |-> branch, local_setup |-> local_setup]

CacheSubmodule(name, submodule) == [name |-> name, submodule |-> submodule]

\* ConfigFile::new(name): the defaults of Project, CMake and Dependencies
ConfigFile_new(name) ==
    [project |-> [name |-> name, version |-> <<"1">>],
     cmake |-> [minimum_required |-> <<"3", ".", "15">>, files |-> ProjectFiles_all],
     dependencies |-> [find |-> <<>>, local |-> <<>>, project_dependencies |-> <<>>]]

(***************************************************************************)
(* Text of the generated script: a statement is a command with its         *)
(* arguments; a comment line is the command "#", a blank line the command  *)
(* "".                                                                     *)
(***************************************************************************)
Stmt(cmd, args) == [cmd |-> cmd, args |-> args]

\* "..." around a text
Quoted(s) == <<"\"">> \o s \o <<"\"">>

\* ${...} around a variable name
Deref(v) == <<"${">> \o v \o <<"}">>

Blank == Stmt("", <<>>)

Comment(text) == Stmt("#", <<text>>)

\* str::to_uppercase, token by token
UpperToken(t) ==
    CASE t = "glfw" -> "GLFW"
      [] t = "Lib" -> "LIB"
      [] t = "lib" -> "LIB"
      [] t = "fmt" -> "FMT"
      [] t = "stb" -> "STB"
      [] t = "Name" -> "NAME"
      [] t = "git" -> "GIT"
      [] t = "vendor" -> "VENDOR"
      [] OTHER -> t

to_uppercase(s) == [i \in 1..Len(s) |-> UpperToken(s[i])]

(***************************************************************************)
(* main.rs: write_source_files, the File Inclusion Resolver for sources.   *)
(* The result is the sequence of statements written to the file.           *)
(***************************************************************************)
\* the paths of the groups of one mode, in declared order
GroupPaths(groups, mode) ==
    Concat([i \in 1..Len(groups) |->
                IF groups[i][1] = mode THEN groups[i][2] ELSE <<>>])

\* "{path}/*.cpp" "{path}/*.c" "{path}/*.hpp" "{path}/*.h" for every directory
GlobPatterns(path, dirs) ==
    Concat([i \in 1..Len(dirs) |->
                LET p == IF dirs[i] = Dot THEN path ELSE path \o <<"/">> \o dirs[i]
                IN  << Quoted(p \o <<"/", "*.cpp">>), Quoted(p \o <<"/", "*.c">>),
                       Quoted(p \o <<"/", "*.hpp">>), Quoted(p \o <<"/", "*.h">>) >>])

\* the closure write_glob_type; files_initialized is its captured flag
write_glob_type(source_name, path, glob_type, dirs, files_initialized) ==
    IF dirs = <<>> THEN <<>>
    ELSE LET src_name == source_name \o <<"_", glob_type>>
         IN  IF files_initialized
             THEN << Stmt("file", << <<glob_type>>, src_name >> \o GlobPatterns(path, dirs)),
                     Stmt("list", << <<"APPEND">>, source_name, Deref(src_name) >>) >>
             ELSE << Stmt("file", << <<"GLOB">>, source_name >> \o GlobPatterns(path, dirs)) >>

\* a resolver that does not look at exclude_files
write_source_files_no_exclude(source_name, path, files) ==
    IF files.source_files = <<>> THEN <<>>
    ELSE
      LET individual_files == GroupPaths(files.source_files, "File")
          glob_dirs == GroupPaths(files.source_files, "Glob")
          glob_recurse_dirs == GroupPaths(files.source_files, "GlobRecurse")
      IN  (IF individual_files # <<>>
           THEN << Stmt("set", <<source_name>> \o
                      [i \in 1..Len(individual_files) |->
                           Quoted(path \o <<"/">> \o individual_files[i])]) >>
           ELSE <<>>)
          \o write_glob_type(source_name, path, "GLOB", glob_dirs, individual_files # <<>>)
          \o write_glob_type(source_name, path, "GLOB_RECURSE", glob_recurse_dirs,
                             individual_files # <<>> \/ glob_dirs # <<>>)

write_source_files(source_name, path, files) ==
    IF files.source_files = <<>> THEN <<>>
    ELSE
      LET individual_files == GroupPaths(files.source_files, "File")
          glob_dirs == GroupPaths(files.source_files, "Glob")
          glob_recurse_dirs == GroupPaths(files.source_files, "GlobRecurse")
          set_stmt ==
              IF individual_files # <<>>
              THEN << Stmt("set", <<source_name>> \o
                         [i \in 1..Len(individual_files) |->
                              Quoted(path \o <<"/">> \o individual_files[i])]) >>
              ELSE <<>>
          init1 == individual_files # <<>>
          glob_stmt == write_glob_type(source_name, path, "GLOB", glob_dirs, init1)
          init2 == init1 \/ glob_dirs # <<>>
          recurse_stmt ==
              write_glob_type(source_name, path, "GLOB_RECURSE", glob_recurse_dirs, init2)
          remove_stmt ==
              IF files.exclude_files # <<>>
              THEN << Stmt("list", << <<"REMOVE_ITEM">>, source_name >> \o
                         [i \in 1..Len(files.exclude_files) |->
                              Quoted(path \o <<"/">> \o files.exclude_files[i])]) >>
              ELSE <<>>
      IN  set_stmt \o glob_stmt \o recurse_stmt \o remove_stmt

(***************************************************************************)
(* main.rs: write_include_dirs.                                            *)
(***************************************************************************)
write_include_type(name, path, include_type, dirs) ==
    IF dirs = <<>> THEN <<>>
    ELSE << Stmt("target_include_directories",
                 <<name, <<include_type>> >> \o
                 [i \in 1..Len(dirs) |->
                      IF dirs[i] = Dot THEN Quoted(path)
                      ELSE Quoted(path \o <<"/">> \o dirs[i])]) >>

write_include_dirs(name, path, files) ==
    write_include_type(name, path, "PUBLIC", GroupPaths(files.include_dirs, "Public"))
    \o write_include_type(name, path, "INTERFACE",
                          GroupPaths(files.include_dirs, "Interface"))

(***************************************************************************)
(* main.rs: the content hash of the configuration (derive(Hash) fed to     *)
(* DefaultHasher).  The derived Hash feeds the hasher field by field: a    *)
(* string as its bytes and 0xff, a Vec as its length and its elements, an  *)
(* enum as its discriminant, an Option as 0 or 1 and the value.            *)
(***************************************************************************)
Atoms ==
    << ".", "/", "_", " ", "src", "external", "vendor", "glfw", "Lib", "lib", "fmt",
       "demo", "1", "3", "15", "Name", "git", "https:", "h", "o", "p", "inc",
       "main.cpp", "old.cpp", "GLFW_BUILD_DOCS", "OFF", "BUILD_SHARED_LIBS", "ON",
       "v1", "dev", "m", "stb" >>

TokenCode(t) == CHOOSE i \in 1..Len(Atoms) : Atoms[i] = t

hash_str(s) == [i \in 1..Len(s) |-> TokenCode(s[i])] \o <<255>>

hash_vec(parts) == <<Len(parts)>> \o Concat(parts)

hash_strs(ss) == hash_vec([i \in 1..Len(ss) |-> hash_str(ss[i])])

hash_option_str(o) == IF o = None THEN <<0>> ELSE <<1>> \o hash_str(o[1])

SourceTypeDiscriminant(t) ==
    CASE t = "File" -> 0 [] t = "Glob" -> 1 [] t = "GlobRecurse" -> 2

IncludeTypeDiscriminant(t) == CASE t = "Public" -> 0 [] t = "Interface" -> 1

hash_ProjectFiles(f) ==
    hash_vec([i \in 1..Len(f.source_files) |->
                  <<SourceTypeDiscriminant(f.source_files[i][1])>>
                  \o hash_strs(f.source_files[i][2])])
    \o hash_vec([i \in 1..Len(f.include_dirs) |->
                  <<IncludeTypeDiscriminant(f.include_dirs[i][1])>>
                  \o hash_strs(f.include_dirs[i][2])])
    \o hash_strs(f.exclude_files)

hash_FindDependency(d) ==
    hash_str(d.name) \o <<IF d.required THEN 1 ELSE 0>>
    \o hash_option_str(d.custom_link_name)

hash_LocalType(t) ==
    IF t.tag = "CMake" THEN <<0>>
    ELSE <<1>> \o hash_ProjectFiles(t.files) \o hash_strs(t.dependencies)

hash_LocalDependency(d) ==
    hash_str(d.path) \o hash_str(d.name) \o hash_LocalType(d.local_type)
    \o hash_vec([i \in 1..Len(d.variables) |->
                     hash_str(d.variables[i][1]) \o hash_str(d.variables[i][2])])

hash_ConfigFile(c) ==
    hash_str(c.project.name) \o hash_str(c.project.version)
    \o hash_str(c.cmake.minimum_required) \o hash_ProjectFiles(c.cmake.files)
    \o hash_vec([i \in 1..Len(c.dependencies.find) |->
                     hash_FindDependency(c.dependencies.find[i])])
    \o hash_vec([i \in 1..Len(c.dependencies.local) |->
                     hash_LocalDependency(c.dependencies.local[i])])
    \o hash_strs(c.dependencies.project_dependencies)

HashModulus == 2 ^ HashBits

\* the hasher's state h after the words are written to it one after the other
\* (computed half by half: the result is that of the left-to-right fold)
RECURSIVE hasher_finish(_, _)
hasher_finish(h, words) ==
    IF words = <<>> \/ h < 0 THEN h    \* h < 0 never holds: h is computed here
    ELSE IF Len(words) = 1 THEN (h * 31 + words[1]) % HashModulus
    ELSE LET half == Len(words) \div 2
         IN  hasher_finish(hasher_finish(h, SubSeq(words, 1, half)),
                           SubSeq(words, half + 1, Len(words)))

\* let mut hasher = DefaultHasher::new(); config.hash(&mut hasher); hasher.finish()
config_hash(c) == hasher_finish(7, hash_ConfigFile(c))

\* format!("{}", n) of an unsigned number: its decimal digits
DigitChars == <<"0", "1", "2", "3", "4", "5", "6", "7", "8", "9">>

RECURSIVE Decimal(_)
Decimal(n) ==
    IF n < 10 THEN <<DigitChars[n + 1]>>
    ELSE Decimal(n \div 10) \o <<DigitChars[(n % 10) + 1]>>

\* format!("# {}\n", config_hash)
hash_line(h) == <<"#", " ">> \o Decimal(h) \o <<"\n">>

(***************************************************************************)
(* main.rs: generate_cmake, the text written to CMakeLists.txt.  A file is *)
(* its first line (as read_line returns it, the line terminator included)  *)
(* and the statements after it.                                            *)
(***************************************************************************)
ProjectTarget == Quoted(Deref(<<"PROJECT_NAME">>))

find_statements(find) ==
    [i \in 1..Len(find) |->
         Stmt("find_package",
              <<find[i].name>> \o (IF find[i].required THEN << <<"REQUIRED">> >> ELSE <<>>))]
    \o (IF find # <<>> THEN <<Blank>> ELSE <<>>)

variable_statements(variables) ==
    [i \in 1..Len(variables) |-> Stmt("set", <<variables[i][1], variables[i][2]>>)]

local_type_statements(local) ==
    IF local.local_type.tag = "CMake"
    THEN << Stmt("add_subdirectory", <<local.path>>) >>
    ELSE LET files == local.local_type.files
             dependencies == local.local_type.dependencies
             name == local.name
             src_name == to_uppercase(name) \o <<"_SOURCES">>
         IN  write_source_files(src_name, local.path, files)
             \o (IF files.source_files = <<>>
                 THEN << Stmt("add_library", <<name, <<"INTERFACE">> >>) >>
                 ELSE << Stmt("add_library", <<name, Deref(src_name)>>) >>)
             \o write_include_dirs(name, local.path, files)
             \o (IF dependencies # <<>>
                 THEN << Stmt("target_link_libraries",
                              <<name, <<"PUBLIC">> >> \o dependencies) >>
                 ELSE <<>>)

\* a block that assigns the variables after the dependency's statements
local_statements_variables_last(local) ==
    local_type_statements(local) \o variable_statements(local.variables) \o <<Blank>>

local_statements(local) ==
    variable_statements(local.variables) \o local_type_statements(local) \o <<Blank>>

locals_statements(locals) ==
    Concat([i \in 1..Len(locals) |-> local_statements(locals[i])])

\* the link statement written whether or not there is anything to link
link_statement_always(project_dependencies) ==
    << Stmt("target_link_libraries",
            <<ProjectTarget, <<"PRIVATE">> >> \o project_dependencies) >>

link_statement(project_dependencies) ==
    IF project_dependencies # <<>>
    THEN << Stmt("target_link_libraries",
                 <<ProjectTarget, <<"PRIVATE">> >> \o project_dependencies) >>
    ELSE <<>>

project_statements(c) ==
    << Comment("Project Files:") >>
    \o write_source_files(<<"SOURCES">>, <<"src">>, c.cmake.files)
    \o << Stmt("add_executable", <<ProjectTarget, Deref(<<"SOURCES">>)>>) >>
    \o link_statement(c.dependencies.project_dependencies)

script_header(c) ==
    << Blank,
       Stmt("cmake_minimum_required", << <<"VERSION">>, c.cmake.minimum_required >>),
       Stmt("project", << Quoted(c.project.name) >>),
       Blank, Comment("Project Config Flags:"),
       Stmt("set", << <<"CMAKE_BUILD_TYPE">>, <<"Debug">> >>),
       Stmt("set", << <<"CMAKE_EXPORT_COMPILE_COMMANDS">>, <<"ON">> >>),
       Blank, Comment("Project Dependencies: ") >>

script_body(c) ==
    script_header(c)
    \o find_statements(c.dependencies.find)
    \o locals_statements(c.dependencies.local)
    \o project_statements(c)

File(first_line, body) == [exists |-> TRUE, first_line |-> first_line, body |-> body]

generated_script(c) == File(hash_line(config_hash(c)), script_body(c))

(***************************************************************************)
(* dependencies.rs: submodule_name and the names derived from it.          *)
(***************************************************************************)
\* the text before the last '.' of the last segment
name_without_extension(repo) ==
    LET lib_name == IF Positions(repo, "/") = {} THEN repo
                    ELSE SubSeq(repo, MaxOf(Positions(repo, "/")) + 1, Len(repo))
    IN  IF Positions(lib_name, ".") = {} THEN lib_name
        ELSE SubSeq(lib_name, 1, MaxOf(Positions(lib_name, ".")) - 1)

\* repo.split('/').last()
last_segment(repo) ==
    IF Positions(repo, "/") = {} THEN repo
    ELSE SubSeq(repo, MaxOf(Positions(repo, "/")) + 1, Len(repo))

\* lib_name.split('.').next()
first_part(lib_name) ==
    IF Positions(lib_name, ".") = {} THEN lib_name
    ELSE SubSeq(lib_name, 1, MinOf(Positions(lib_name, ".")) - 1)

submodule_name(repo) == first_part(last_segment(repo))

\* format!("external/{}", lib_name)
submodule_folder_path(repo) == <<"external", "/">> \o submodule_name(repo)

\* the name of a cache entry
cache_entry_name(repo, tag, branch) ==
    submodule_name(repo)
    \o (IF tag # None THEN <<" - tags/">> \o tag[1] ELSE <<>>)
    \o (IF branch # None THEN <<" - branch/">> \o branch[1] ELSE <<>>)

(***************************************************************************)
(* error.rs: ProjectError and display_error.  A Result carries either a    *)
(* value or an error; an error is its variant with the variant's fields.   *)
(***************************************************************************)
ProjectError(kind, what, code) == [kind |-> kind, what |-> what, code |-> code]

NoError == ProjectError("", <<>>, None)

Ok == [ok |-> TRUE, err |-> NoError]

Err(e) == [ok |-> FALSE, err |-> e]

InvalidProjectDirectory == ProjectError("InvalidProjectDirectory", <<>>, None)

UnknownArgument(arg) == ProjectError("UnknownArgument", <<arg>>, None)

CannotOpenFile(path) == ProjectError("CannotOpenFile", path, None)

FailedToCreateFile(path) == ProjectError("FailedToCreateFile", path, None)

\* FailedToRunProcess(String, Option<i32>): the command line and output.status.code()
FailedToRunProcess(process, code) == ProjectError("FailedToRunProcess", process, code)

(***************************************************************************)
(* What the process does that can be observed from outside: the lines it   *)
(* prints, the processes it runs with their exit status, the files it      *)
(* writes.  Every event has the same shape.                                *)
(***************************************************************************)
Event(kind, what, detail, code) ==
    [kind |-> kind, what |-> what, detail |-> detail, code |-> code]

Printed(text) == Event("print", text, <<>>, None)

\* eprintln!("{}", e) of display_error
Displayed(e) == Event("error", e.kind, e.what, e.code)

\* a process run to its end with exit status `code` (None: killed by a signal)
Ran(process, detail, code) == Event("run", process, detail, code)

Wrote(file) == Event("write", file, <<>>, None)

Removed(file) == Event("remove", file, <<>>, None)

Panicked(at) == Event("panic", at, <<>>, None)

\* the user's answer to a prompt
Answered(prompt, answer) == Event("prompt", prompt, <<answer>>, None)

\* ExitStatus::success()
success(code) == code = Some(0)

(***************************************************************************)
(* The exit code of the process: main returns Ok(()) on every path it      *)
(* ends itself; a panic (a failed unwrap, todo!()) ends it with Rust's     *)
(* panic exit code.                                                        *)
(***************************************************************************)
main_exit_code == 0

panic_exit_code == 101

(***************************************************************************)
(* Inputs of the model.                                                    *)
(***************************************************************************)
RepoLibName ==
    <<"https:", "/", "/", "github", ".", "com", "/", "org", "/", "Lib", ".", "Name", ".", "git">>

RepoLib == <<"https:", "/", "/", "host", "/", "path", "/", "lib">>

Repos == {RepoLibName, RepoLib}

Tags == {None, Some(<<"v1">>)}

Branches == {None, Some(<<"dev">>)}

\* exit statuses of an external process: success, exit code 1, killed by a signal
ExitStatuses == {Some(0), Some(1), None}

\* variables of a local dependency, as get_dependency_variables splits them
VarDocs == << <<"GLFW_BUILD_DOCS">>, <<" ", "OFF">> >>

VarShared == << <<"BUILD_SHARED_LIBS">>, <<" ", "ON">> >>

\* a ProjectFiles with a group of every mode and an excluded file
ProjectFiles_custom ==
    [source_files |-> << <<"File", << <<"main.cpp">> >> >>,
                         <<"Glob", << <<"inc">> >> >>,
                         <<"GlobRecurse", <<Dot>> >> >>,
     include_dirs |-> << <<"Public", << <<"inc">> >> >>, <<"Interface", <<Dot>> >> >>,
     exclude_files |-> << <<"old.cpp">> >>]

LocalLib ==
    LocalDependency(<<"external", "/", "Lib">>, <<"Lib">>, LocalType_CMake,
                    <<VarDocs, VarShared>>)

LocalGlfw ==
    LocalDependency(<<"lib">>, <<"glfw">>,
                    LocalType_Source(ProjectFiles_all, <<>>), <<VarShared, VarDocs>>)

LocalFmt ==
    LocalDependency(<<"vendor", "/", "fmt">>, <<"fmt">>,
                    LocalType_Source(ProjectFiles_header, << <<"m">> >>), <<>>)

LocalLower ==
    LocalDependency(<<"external", "/", "lib">>, <<"lib">>,
                    LocalType_Source(ProjectFiles_custom, << <<"m">>, <<"glfw">> >>),
                    <<VarDocs>>)

\* a Source dependency whose only source group lists no directory
LocalStb ==
    LocalDependency(<<"vendor", "/", "stb">>, <<"stb">>,
                    LocalType_Source([source_files |-> << <<"Glob", <<>> >> >>,
                                      include_dirs |-> << <<"Public", <<Dot>> >> >>,
                                      exclude_files |-> <<>>], <<>>),
                    <<>>)

LocalPool == {LocalLib, LocalGlfw, LocalFmt, LocalLower, LocalStb}

FindPool == {FindDependency(<<"glfw">>, TRUE), FindDependency(<<"fmt">>, FALSE)}

NamePool == {<<"glfw">>, <<"Lib">>}

FilesPool == {ProjectFiles_all, ProjectFiles_header, ProjectFiles_custom}

\* the configurations the generator is checked on
GenConfigs ==
    {[project |-> [name |-> <<"demo">>, version |-> <<"1">>],
      cmake |-> [minimum_required |-> <<"3", ".", "15">>, files |-> f],
      dependencies |-> [find |-> fd, local |-> ld, project_dependencies |-> pd]] :
        f \in FilesPool, fd \in SeqUpTo(FindPool, MaxFind),
        ld \in SeqUpTo(LocalPool, MaxLocal), pd \in SeqUpTo(NamePool, MaxProjectDeps)}

\* a configuration with one dependency of each kind
ConfigWithDeps ==
    [project |-> [name |-> <<"demo">>, version |-> <<"1">>],
     cmake |-> [minimum_required |-> <<"3", ".", "15">>, files |-> ProjectFiles_root],
     dependencies |-> [find |-> << FindDependency(<<"fmt">>, TRUE) >>,
                       local |-> << LocalGlfw >>,
                       project_dependencies |-> << <<"fmt">>, <<"glfw">> >>]]

\* the configurations on disk when a command other than cmake starts
DiskConfigs == {ConfigFile_new(<<"demo">>), ConfigWithDeps}

CacheEntryLib ==
    CacheSubmodule(cache_entry_name(RepoLibName, None, None),
                   GitSubmodule(RepoLibName, None, None, LocalLib))

CacheEntryLower ==
    CacheSubmodule(cache_entry_name(RepoLib, Some(<<"v1">>), Some(<<"dev">>)),
                   GitSubmodule(RepoLib, Some(<<"v1">>), Some(<<"dev">>), LocalLower))

CacheEntryTagged ==
    CacheSubmodule(cache_entry_name(RepoLib, Some(<<"v1">>), None),
                   GitSubmodule(RepoLib, Some(<<"v1">>), None,
                                LocalDependency(<<"external", "/", "lib">>, <<"lib">>,
                                                LocalType_CMake, <<>>)))

CachePool == {CacheEntryLib, CacheEntryLower, CacheEntryTagged}

Commands ==
    {"new", "add", "cmake", "build", "BUILD", "run", "ignore", "clean", "help", "frobnicate"}

Arguments == {None, Some("skip_build"), Some("all"), Some("demo"), Some("bogus")}

(***************************************************************************)
(* The state of one invocation of the program.                             *)
(***************************************************************************)
VARIABLES
    argv,       \* <<std::env::args().nth(1), std::env::args().nth(2)>>
    pc,         \* the step the process is at
    stack,      \* where the functions being executed return to
    config,     \* the ConfigFile in memory (as loaded by get_config)
    loc,        \* the local variables of the add-dependency functions
    fs,         \* the files of the project directory and the cache document
    trace,      \* the events so far
    exit_code   \* None while the process runs, then its exit code

vars == <<argv, pc, stack, config, loc, fs, trace, exit_code>>

\* the value of `config` before get_config has returned
Unloaded == ConfigFile_new(<<>>)

NoFile == [exists |-> FALSE, first_line |-> <<>>, body |-> <<>>]

NoDocument == [exists |-> FALSE, doc |-> Unloaded, junk |-> 0, comments |-> 0]

\* CMakeMake.toml holding the serialization of c, followed by `junk` bytes of an
\* older, longer content; `comments` is the length of the comments and blank lines
\* its author has put between the entries, which toml::from_str passes over
Document(c, junk) == [exists |-> TRUE, doc |-> c, junk |-> junk, comments |-> 0]

\* the length of toml::to_string(&c), counted in the words of its content
serialized_len(c) == Len(hash_ConfigFile(c))

\* the length of a text
document_len(document) ==
    IF document.exists
    THEN serialized_len(document.doc) + document.comments + document.junk
    ELSE 0

\* a CMakeMake.toml written by hand: configuration c with its entries commented
HandWritten(c) == [Document(c, 0) EXCEPT !.comments = 2 * serialized_len(c)]

\* the scripts that can lie beside configuration c when a command starts: none, an
\* empty file, one generated from c, one cut before the end of its first line, one
\* generated from another configuration
ScriptsBeside(c) ==
    { NoFile,
      File(<<>>, <<>>),
      File(hash_line(config_hash(c)), script_body(c)),
      File(<<"#", " ">> \o Decimal(config_hash(c)), <<>>),
      File(hash_line((config_hash(c) + 1) % HashModulus), script_body(c)) }

NoLocal == LocalDependency(<<>>, <<>>, LocalType_CMake, <<>>)

InitLoc ==
    [dep_type |-> "", repo |-> <<>>, tag |-> None, branch |-> None,
     folder_path |-> <<>>, local_setup |-> NoLocal, cache |-> <<>>,
     selection |-> <<>>, val |-> <<>>, result |-> Ok]

InitProcess ==
    /\ pc = "main"
    /\ stack = <<>>
    /\ config = Unloaded
    /\ loc = InitLoc
    /\ trace = <<>>
    /\ exit_code = None

\* the files a command neither reads nor writes are held at one value
UsesScript(command) == command \in {"cmake", "build", "BUILD", "run", "clean"}

UsesBuildDir(command) == command \in {"build", "BUILD", "run", "clean"}

UsesArgument(command) == command \in {"new", "run", "clean"}

Init ==
    /\ InitProcess
    /\ \E command \in Commands \cup {""},
          document \in {NoDocument, HandWritten(ConfigFile_new(<<"demo">>))}
                         \cup {Document(c, 0) : c \in DiskConfigs} :
         /\ document.comments > 0 => command = "add"
         /\ \E arg \in (IF UsesArgument(command) THEN Arguments ELSE {None}) :
              argv = <<IF command = "" THEN None ELSE Some(command), arg>>
         /\ \E script \in (IF UsesScript(command)
                            THEN ScriptsBeside(document.doc) ELSE {NoFile}),
               cache \in (IF command = "add" /\ document.comments = 0
                           THEN SeqUpTo(CachePool, MaxCache) ELSE {<<>>}),
               build \in (IF UsesBuildDir(command) THEN BOOLEAN ELSE {FALSE}),
               ignore \in (IF command = "ignore" THEN BOOLEAN ELSE {FALSE}) :
              fs = [config |-> document, cmake |-> script, cache |-> cache,
                    build |-> build, ignore |-> ignore]

\* the generator alone, on every configuration of GenConfigs
InitGen ==
    /\ InitProcess
    /\ argv = <<Some("cmake"), None>>
    /\ \E c \in GenConfigs :
         fs = [config |-> Document(c, 0), cmake |-> NoFile, cache |-> <<>>,
               build |-> FALSE, ignore |-> FALSE]

(***************************************************************************)
(* Steps shared by the functions.                                          *)
(***************************************************************************)
\* the error leaves through every `?` up to main, which displays it
Propagate(e) ==
    /\ pc' = "display_error"
    /\ loc' = [loc EXCEPT !.result = Err(e)]

\* a panic: the process ends with the panic exit code, nothing is unwound
Panic(at) ==
    /\ pc' = "exited"
    /\ exit_code' = Some(panic_exit_code)
    /\ trace' = Append(trace, Panicked(at))

\* the function being executed returns Ok to its caller
ReturnOk ==
    /\ pc' = Head(stack)
    /\ stack' = Tail(stack)

\* a get_config that takes a missing document for the default configuration
get_config_or_default(io_ok) ==
    IF ~fs.config.exists THEN [ok |-> TRUE, err |-> NoError, val |-> ConfigFile_new(<<"demo">>)]
    ELSE IF ~io_ok \/ fs.config.junk > 0
         THEN [ok |-> FALSE, err |-> CannotOpenFile(<<"CMakeMake.toml">>), val |-> Unloaded]
         ELSE [ok |-> TRUE, err |-> NoError, val |-> fs.config.doc]

\* util.rs: get_config; io_ok is whether the file can be opened and read
get_config(io_ok) ==
    IF ~fs.config.exists THEN [ok |-> FALSE, err |-> InvalidProjectDirectory, val |-> Unloaded]
    ELSE IF ~io_ok \/ fs.config.junk > 0
         THEN [ok |-> FALSE, err |-> CannotOpenFile(<<"CMakeMake.toml">>), val |-> Unloaded]
         ELSE [ok |-> TRUE, err |-> NoError, val |-> fs.config.doc]

\* str::to_lowercase of the command
to_lowercase(command) == IF command = "BUILD" THEN "build" ELSE command

(***************************************************************************)
(* main.rs: main.                                                          *)
(***************************************************************************)
main ==
    /\ pc = "main"
    /\ UNCHANGED <<argv, config, loc, fs>>
    /\ LET command == IF argv[1] = None THEN "" ELSE to_lowercase(argv[1][1])
       IN  IF command \in {"new", "add", "cmake", "build", "run", "ignore", "clean"}
           THEN /\ pc' = CASE command = "new" -> "new_project"
                            [] command = "add" -> "add_dependency"
                            [] command = "cmake" -> "generate_cmake"
                            [] command = "build" -> "build_project"
                            [] command = "run" -> "run_project"
                            [] command = "ignore" -> "add_ignore"
                            [] command = "clean" -> "clean_project"
                /\ stack' = <<"display_error">>
                /\ UNCHANGED <<trace, exit_code>>
           ELSE /\ pc' = "exited"
                /\ exit_code' = Some(main_exit_code)
                /\ trace' = trace \o
                       (IF command \in {"", "help"} THEN <<>>
                        ELSE <<Printed("Unknown command")>>) \o <<Printed("help")>>
                /\ UNCHANGED stack

\* a main that returns the error it displayed, for a non-zero exit status
display_error_returned ==
    /\ pc = "display_error"
    /\ pc' = "exited"
    /\ exit_code' = Some(IF loc.result.ok THEN 0 ELSE 1)
    /\ trace' = IF loc.result.ok THEN trace ELSE Append(trace, Displayed(loc.result.err))
    /\ UNCHANGED <<argv, stack, config, loc, fs>>

\* Result::display_error on the command's result, then main's Ok(())
display_error ==
    /\ pc = "display_error"
    /\ pc' = "exited"
    /\ exit_code' = Some(main_exit_code)
    /\ trace' = IF loc.result.ok THEN trace ELSE Append(trace, Displayed(loc.result.err))
    /\ UNCHANGED <<argv, stack, config, loc, fs>>

(***************************************************************************)
(* main.rs: new_project.  The project is created in a new directory        *)
(* <name>/, not in the current one; its steps are taken as one.            *)
(***************************************************************************)
new_project ==
    /\ pc = "new_project"
    /\ UNCHANGED <<argv, stack, config, fs, exit_code>>
    /\ pc' = "display_error"
    /\ IF argv[2] = None
       THEN /\ loc' = [loc EXCEPT !.result = Err(ProjectError("MissingName", <<>>, None))]
            /\ UNCHANGED trace
       ELSE \E outcome \in {"FailedToCreateFolder", "FailedToInitGit",
                            "FailedToCreateFile", "created"} :
              IF outcome = "created"
              THEN /\ trace' = Append(trace, Printed("Finished creating project at"))
                   /\ UNCHANGED loc
              ELSE /\ loc' = [loc EXCEPT !.result =
                                  Err(ProjectError(outcome, <<argv[2][1]>>, None))]
                   /\ UNCHANGED trace

(***************************************************************************)
(* main.rs: generate_cmake.                                                *)
(***************************************************************************)
generate_cmake ==
    /\ pc = "generate_cmake"
    /\ UNCHANGED <<argv, fs, exit_code>>
    /\ \E io_ok \in BOOLEAN :
         LET r == get_config(io_ok)
         IN  /\ trace' = Append(trace, Printed("Generating CMakeLists.txt from config"))
             /\ IF r.ok
                THEN /\ config' = r.val
                     /\ pc' = "generate_cmake.open"
                     /\ UNCHANGED <<stack, loc>>
                ELSE /\ Propagate(r.err)
                     /\ UNCHANGED <<stack, config>>

\* OpenOptions::new().write(true).create(true).truncate(true).open(..).unwrap()
generate_cmake_open ==
    /\ pc = "generate_cmake.open"
    /\ UNCHANGED <<argv, stack, config, loc>>
    /\ \E io_ok \in BOOLEAN :
         IF io_ok
         THEN /\ fs' = [fs EXCEPT !.cmake = File(<<>>, <<>>)]
              /\ pc' = "generate_cmake.write"
              /\ UNCHANGED <<trace, exit_code>>
         ELSE /\ Panic("generate_cmake: open")
              /\ UNCHANGED fs

\* the writeln!(..).unwrap() calls, the first of them the hash line; a failed write
\* panics and leaves what was written before it
generate_cmake_write ==
    /\ pc = "generate_cmake.write"
    /\ UNCHANGED <<argv, config, loc>>
    /\ \E written \in {"nothing", "first line", "all"} :
         IF written = "all"
         THEN /\ fs' = [fs EXCEPT !.cmake = generated_script(config)]
              /\ trace' = trace \o <<Wrote("CMakeLists.txt"),
                                     Printed("Finished creating CMakeLists.txt in")>>
              /\ ReturnOk
              /\ UNCHANGED exit_code
         ELSE /\ fs' = [fs EXCEPT !.cmake =
                           IF written = "nothing" THEN File(<<>>, <<>>)
                           ELSE File(hash_line(config_hash(config)), <<>>)]
              /\ Panic("generate_cmake: writeln")
              /\ UNCHANGED stack

(***************************************************************************)
(* main.rs: build_project.                                                 *)
(***************************************************************************)
\* a staleness check that looks only at whether the script is there
script_is_stale_presence_only(script, c) == ~script.exists

\* the staleness check: the script is absent, or its first line is not
\* format!("# {}\n", config_hash)
script_is_stale(script, c) ==
    ~script.exists \/ script.first_line # hash_line(config_hash(c))

build_project ==
    /\ pc = "build_project"
    /\ UNCHANGED <<argv, stack, fs, exit_code>>
    /\ \E io_ok \in BOOLEAN :
         LET r == get_config(io_ok)
         IN  /\ trace' = Append(trace, Printed("Building Project"))
             /\ IF r.ok
                THEN /\ config' = r.val
                     /\ pc' = "build_project.check"
                     /\ UNCHANGED loc
                ELSE /\ Propagate(r.err)
                     /\ UNCHANGED config

\* lines 424-447: regenerate the script when it is absent or out of date
build_project_check ==
    /\ pc = "build_project.check"
    /\ UNCHANGED <<argv, config, fs>>
    /\ \E io \in {"ok", "open failed", "read failed"} :
         IF fs.cmake.exists /\ io = "open failed"
         THEN /\ Propagate(CannotOpenFile(<<"CMakeLists.txt">>))
              /\ UNCHANGED <<stack, trace, exit_code>>
         ELSE IF fs.cmake.exists /\ io = "read failed"
         THEN /\ Panic("build_project: read_line")
              /\ UNCHANGED <<stack, loc>>
         ELSE IF script_is_stale(fs.cmake, config)
         THEN /\ trace' = Append(trace,
                     Printed(IF fs.cmake.exists
                             THEN "warning: CMakeLists.txt out of date. Regenerating."
                             ELSE "warning: CMakeLists.txt doesn't exist"))
              /\ pc' = "generate_cmake"
              /\ stack' = <<"build_project.configure">> \o stack
              /\ UNCHANGED <<loc, exit_code>>
         ELSE /\ pc' = "build_project.configure"
              /\ UNCHANGED <<stack, loc, trace, exit_code>>

\* duct::cmd!("cmake", "-B", "build").unchecked().run().unwrap()
build_project_configure ==
    /\ pc = "build_project.configure"
    /\ UNCHANGED <<argv, config>>
    /\ \E spawned \in BOOLEAN, code \in ExitStatuses, made \in BOOLEAN :
         IF ~spawned
         THEN /\ Panic("build_project: cmake -B build")
              /\ UNCHANGED <<stack, loc, fs>>
         ELSE /\ trace' = Append(trace, Ran("cmake -B build", <<>>, code))
              /\ UNCHANGED exit_code
              /\ IF success(code)
                 THEN /\ fs' = [fs EXCEPT !.build = TRUE]
                      /\ pc' = "build_project.compile"
                      /\ UNCHANGED <<stack, loc>>
                 ELSE /\ fs' = [fs EXCEPT !.build = fs.build \/ made]
                      /\ Propagate(FailedToRunProcess(<<"cmake -B build">>, code))
                      /\ UNCHANGED stack

\* a build that does not look at the exit status of `cmake --build build`
build_project_compile_unchecked ==
    /\ pc = "build_project.compile"
    /\ UNCHANGED <<argv, config, loc, fs>>
    /\ \E spawned \in BOOLEAN, code \in ExitStatuses :
         IF ~spawned
         THEN /\ Panic("build_project: cmake --build build")
              /\ UNCHANGED stack
         ELSE /\ UNCHANGED exit_code
              /\ trace' = trace \o <<Ran("cmake --build build", <<>>, code),
                                     Printed("Finished building c++ project in")>>
              /\ ReturnOk

\* duct::cmd!("cmake", "--build", "build").unchecked().run().unwrap()
build_project_compile ==
    /\ pc = "build_project.compile"
    /\ UNCHANGED <<argv, config, fs>>
    /\ \E spawned \in BOOLEAN, code \in ExitStatuses :
         IF ~spawned
         THEN /\ Panic("build_project: cmake --build build")
              /\ UNCHANGED <<stack, loc>>
         ELSE /\ UNCHANGED exit_code
              /\ IF success(code)
                 THEN /\ trace' = trace \o <<Ran("cmake --build build", <<>>, code),
                                            Printed("Finished building c++ project in")>>
                      /\ ReturnOk
                      /\ UNCHANGED loc
                 ELSE /\ trace' = Append(trace, Ran("cmake --build build", <<>>, code))
                      /\ Propagate(FailedToRunProcess(<<"cmake">>, code))
                      /\ UNCHANGED stack

(***************************************************************************)
(* main.rs: run_project.                                                   *)
(***************************************************************************)
run_project ==
    /\ pc = "run_project"
    /\ UNCHANGED <<argv, stack, fs, trace, exit_code>>
    /\ \E io_ok \in BOOLEAN :
         LET r == get_config(io_ok)
         IN  IF r.ok
             THEN /\ config' = r.val
                  /\ pc' = "run_project.args"
                  /\ UNCHANGED loc
             ELSE /\ Propagate(r.err)
                  /\ UNCHANGED config

\* lines 494-506: the optional argument skip_build
run_project_args ==
    /\ pc = "run_project.args"
    /\ UNCHANGED <<argv, config, fs, trace, exit_code>>
    /\ IF argv[2] = None
       THEN /\ pc' = "build_project"
            /\ stack' = <<"run_project.exec">> \o stack
            /\ UNCHANGED loc
       ELSE IF argv[2] = Some("skip_build")
       THEN /\ pc' = "run_project.exec"
            /\ UNCHANGED <<stack, loc>>
       ELSE /\ Propagate(UnknownArgument(argv[2][1]))
            /\ UNCHANGED stack

\* duct::cmd!(format!("./build/{}", config.project.name)).unchecked().run().unwrap()
run_project_exec ==
    /\ pc = "run_project.exec"
    /\ UNCHANGED <<argv, config, loc, fs>>
    /\ \E spawned \in BOOLEAN, code \in ExitStatuses :
         IF ~spawned
         THEN /\ Panic("run_project: ./build/<name>")
              /\ UNCHANGED stack
         ELSE /\ trace' = trace \o <<Ran("./build/", config.project.name, code),
                                     Printed("Finished program execution with exit code")>>
              /\ ReturnOk
              /\ UNCHANGED exit_code

(***************************************************************************)
(* main.rs: clean_project and add_ignore.                                  *)
(***************************************************************************)
\* a clean that takes any argument other than "all" as no argument
clean_project_any_argument ==
    /\ pc = "clean_project"
    /\ UNCHANGED <<argv, stack, config, exit_code>>
    /\ pc' = "display_error"
    /\ IF ~fs.config.exists
       THEN /\ loc' = [loc EXCEPT !.result = Err(InvalidProjectDirectory)]
            /\ trace' = Append(trace, Printed("Cleaning build files"))
            /\ UNCHANGED fs
       ELSE /\ fs' = [fs EXCEPT !.build = FALSE,
                                !.cmake = IF argv[2] = Some("all") THEN NoFile ELSE @]
            /\ trace' = trace \o <<Printed("Cleaning build files")>>
                 \o (IF fs.build THEN <<Removed("build")>> ELSE <<>>)
                 \o (IF argv[2] = Some("all") /\ fs.cmake.exists
                     THEN <<Removed("CMakeLists.txt")>> ELSE <<>>)
                 \o <<Printed("Finished removing build files")>>
            /\ UNCHANGED loc

clean_project ==
    /\ pc = "clean_project"
    /\ UNCHANGED <<argv, stack, config, exit_code>>
    /\ pc' = "display_error"
    /\ IF ~fs.config.exists
       THEN /\ loc' = [loc EXCEPT !.result = Err(InvalidProjectDirectory)]
            /\ trace' = Append(trace, Printed("Cleaning build files"))
            /\ UNCHANGED fs
       ELSE IF argv[2] \notin {None, Some("all")}
       THEN /\ loc' = [loc EXCEPT !.result = Err(UnknownArgument(argv[2][1]))]
            /\ trace' = Append(trace, Printed("Cleaning build files"))
            /\ UNCHANGED fs
       ELSE \E rm_dir_ok \in BOOLEAN, rm_file_ok \in BOOLEAN :
              LET clean_all == argv[2] = Some("all")
                  dir_removed == fs.build /\ rm_dir_ok
                  file_removed == clean_all /\ fs.cmake.exists /\ rm_file_ok
              IN  /\ fs' = [fs EXCEPT !.build = IF dir_removed THEN FALSE ELSE @,
                                      !.cmake = IF file_removed THEN NoFile ELSE @]
                  /\ trace' = trace \o <<Printed("Cleaning build files")>>
                       \o (IF dir_removed THEN <<Removed("build")>>
                           ELSE <<Printed("warning: failed to remove folder 'build'")>>)
                       \o (IF ~clean_all THEN <<>>
                           ELSE IF file_removed THEN <<Removed("CMakeLists.txt")>>
                           ELSE <<Printed("warning: failed to remove file 'CMakeLists.txt'")>>)
                       \o <<Printed("Finished removing build files")>>
                  /\ UNCHANGED loc

add_ignore ==
    /\ pc = "add_ignore"
    /\ UNCHANGED <<argv, stack, config, exit_code>>
    /\ pc' = "display_error"
    /\ IF ~fs.config.exists
       THEN /\ loc' = [loc EXCEPT !.result = Err(InvalidProjectDirectory)]
            /\ trace' = Append(trace, Printed("Adding .ignore"))
            /\ UNCHANGED fs
       ELSE IF fs.ignore
       THEN /\ trace' = trace \o <<Printed("Adding .ignore"),
                                   Printed(".ignore file already exists")>>
            /\ UNCHANGED <<loc, fs>>
       ELSE \E io_ok \in BOOLEAN :
              IF io_ok
              THEN /\ fs' = [fs EXCEPT !.ignore = TRUE]
                   /\ trace' = trace \o <<Printed("Adding .ignore"),
                                          Printed("Creating .ignore file"), Wrote(".ignore")>>
                   /\ UNCHANGED loc
              ELSE /\ loc' = [loc EXCEPT !.result = Err(FailedToCreateFile(<<".ignore">>))]
                   /\ trace' = trace \o <<Printed("Adding .ignore"),
                                          Printed("Creating .ignore file")>>
                   /\ UNCHANGED fs

(***************************************************************************)
(* main.rs: add_dependency.                                                *)
(***************************************************************************)
add_dependency ==
    /\ pc = "add_dependency"
    /\ UNCHANGED <<argv, stack, fs, trace, exit_code>>
    /\ \E io_ok \in BOOLEAN :
         LET r == get_config(io_ok)
         IN  IF r.ok
             THEN /\ config' = r.val
                  /\ pc' = "add_dependency.select"
                  /\ UNCHANGED loc
             ELSE /\ Propagate(r.err)
                  /\ UNCHANGED config

\* inquire::Select "Choose the Dependency Type:" .raw_prompt().unwrap(), and the match
add_dependency_select ==
    /\ pc = "add_dependency.select"
    /\ UNCHANGED <<argv, stack, config, fs>>
    /\ \E answer \in {"cancelled", "Pre-Cached", "Git Submodule", "Find", "Local"} :
         IF answer = "cancelled"
         THEN /\ Panic("add_dependency: prompt")
              /\ UNCHANGED loc
         ELSE /\ loc' = [loc EXCEPT !.dep_type = answer]
              /\ pc' = CASE answer = "Pre-Cached" -> "add_cached_dependency"
                         [] answer = "Git Submodule" -> "add_git_submodule"
                         [] answer = "Find" -> "add_find_dependency"
                         [] answer = "Local" -> "add_local_dependency"
              /\ UNCHANGED <<trace, exit_code>>

\* util.rs: write_config: the file is opened without truncate and the serialization
\* written from its start, so the bytes of a longer previous content stay behind it
written_document(old, c) ==
    Document(c, IF document_len(old) > serialized_len(c)
                THEN document_len(old) - serialized_len(c)
                ELSE 0)

\* lines 155-159: write_config(config)?, then the success message
write_config ==
    /\ pc = "write_config"
    /\ UNCHANGED <<argv, config, exit_code>>
    /\ \E io \in {"ok", "open failed", "write failed"} :
         IF io = "ok"
         THEN /\ fs' = [fs EXCEPT !.config = written_document(fs.config, config)]
              /\ trace' = trace \o <<Wrote("CMakeMake.toml"),
                                     Printed("Successfully added dependency")>>
              /\ ReturnOk
              /\ UNCHANGED loc
         ELSE /\ Propagate(IF io = "open failed" THEN CannotOpenFile(<<"CMakeMake.toml">>)
                           ELSE FailedToCreateFile(<<"CMakeMake.toml">>))
              /\ UNCHANGED <<stack, fs, trace>>

(***************************************************************************)
(* dependencies.rs: get_is_project_dependency, add_find_dependency,        *)
(* add_local_dependency, add_local_dependency_path.                        *)
(***************************************************************************)
\* the configuration after get_is_project_dependency(config, name) was answered
get_is_project_dependency(c, name, answer) ==
    IF answer
    THEN [c EXCEPT !.dependencies.project_dependencies = Append(@, name)]
    ELSE c

push_find(c, dependency) == [c EXCEPT !.dependencies.find = Append(@, dependency)]

\* a registration that forgets the entry itself
push_local_forgotten(c, dependency) == c

push_local(c, dependency) == [c EXCEPT !.dependencies.local = Append(@, dependency)]

add_find_dependency ==
    /\ pc = "add_find_dependency"
    /\ UNCHANGED <<argv, stack, loc, fs>>
    /\ \E cancelled \in BOOLEAN, name \in NamePool, required \in BOOLEAN,
          answer \in BOOLEAN :
         IF cancelled
         THEN /\ Panic("add_find_dependency: prompt")
              /\ UNCHANGED config
         ELSE /\ config' = get_is_project_dependency(
                               push_find(config, FindDependency(name, required)),
                               name, answer)
              /\ pc' = "write_config"
              /\ UNCHANGED <<trace, exit_code>>

\* the folders the user can name (folder_validator accepts existing folders only)
LocalPaths == {<<"vendor", "/", "fmt">>, <<"external", "/", "glfw">>}

add_local_dependency ==
    /\ pc = "add_local_dependency"
    /\ UNCHANGED <<argv, stack, config, fs>>
    /\ \E cancelled \in BOOLEAN, path \in LocalPaths :
         IF cancelled
         THEN /\ Panic("add_local_dependency: prompt")
              /\ UNCHANGED loc
         ELSE /\ loc' = [loc EXCEPT !.folder_path = path]
              /\ pc' = "add_local_dependency_path"
              /\ UNCHANGED <<trace, exit_code>>

\* what the user answers to the prompts of add_local_dependency_path: a typed name
\* (None: the default, the folder's name), the variables, the kind ("todo" is the
\* menu entry "All (Exclude)", which is todo!()), and the project-dependency answer
LocalAnswers ==
    [name : {None, Some(<<"fmt">>)},
     kind : {"CMake", "All (recursive)", "All", "todo"},
     answer : BOOLEAN]

answered_variables(a) == IF a.kind = "All (recursive)" THEN <<>> ELSE <<VarShared>>

answered_local_type(a) ==
    CASE a.kind = "CMake" -> LocalType_CMake
      [] a.kind = "All (recursive)" -> LocalType_Source(ProjectFiles_all, <<>>)
      [] OTHER -> LocalType_Source(ProjectFiles_root, << <<"m">> >>)

\* lines 67-133: the LocalDependency built from the path and the answers
answered_dependency(path, a) ==
    LocalDependency(path,
                    IF a.name = None THEN last_segment(path) ELSE a.name[1],
                    answered_local_type(a), answered_variables(a))

add_local_dependency_path ==
    /\ pc = "add_local_dependency_path"
    /\ UNCHANGED <<argv, stack, fs>>
    /\ \E cancelled \in BOOLEAN, a \in LocalAnswers :
         IF cancelled \/ a.kind = "todo"
         THEN /\ Panic(IF cancelled THEN "add_local_dependency_path: prompt"
                       ELSE "add_local_dependency_path: todo!()")
              /\ UNCHANGED <<config, loc>>
         ELSE LET local_dependency == answered_dependency(loc.folder_path, a)
              IN  /\ config' = get_is_project_dependency(
                                   push_local(config, local_dependency),
                                   local_dependency.name, a.answer)
                  /\ loc' = [loc EXCEPT !.local_setup = local_dependency]
                  /\ pc' = IF loc.dep_type = "Git Submodule"
                           THEN "add_git_submodule.cache" ELSE "write_config"
                  /\ UNCHANGED <<trace, exit_code>>

(***************************************************************************)
(* dependencies.rs: add_submodule, called by add_git_submodule and by the  *)
(* closure of add_cached_dependency.                                       *)
(***************************************************************************)
\* lines 254-273: the checkout command for the tag and the branch, if any
\* an add_submodule that never checks anything out
checkout_command_none(tag, branch) == None

checkout_command(tag, branch) ==
    CASE tag # None /\ branch # None ->
             Some(<<"checkout", "tags/">> \o tag[1] \o <<"-b">> \o branch[1])
      [] tag # None /\ branch = None -> Some(<<"checkout", "tags/">> \o tag[1])
      [] tag = None /\ branch # None -> Some(<<"checkout", "-b">> \o branch[1])
      [] OTHER -> None

\* an add_submodule whose failed `git submodule add` is taken as no more than a
\* warning: it goes on to the next step
submodule_failed_goes_on(e) ==
    /\ loc' = [loc EXCEPT !.folder_path = submodule_folder_path(loc.repo)]
    /\ pc' = "add_submodule.update"

\* an add_submodule whose Err ends the workflow it was called from, whichever it is
submodule_failed_ends_workflow(e) == Propagate(e)

\* where add_submodule's Err goes: add_git_submodule passes it on with `?`; the
\* closure of add_cached_dependency returns it as the entry's result
submodule_failed(e) ==
    IF loc.dep_type = "Git Submodule"
    THEN Propagate(e)
    ELSE /\ loc' = [loc EXCEPT !.val = Append(@, Err(e))]
         /\ pc' = "add_cached_dependency.next"

\* lines 221-237: git submodule add <repo> external/<name>
add_submodule ==
    /\ pc = "add_submodule"
    /\ UNCHANGED <<argv, stack, config, fs>>
    /\ \E spawned \in BOOLEAN, code \in ExitStatuses :
         LET folder_path == submodule_folder_path(loc.repo)
         IN  IF ~spawned
             THEN /\ Panic("add_submodule: git submodule add")
                  /\ UNCHANGED loc
             ELSE /\ trace' = Append(trace,
                        Ran("git submodule add", loc.repo \o <<" ">> \o folder_path, code))
                  /\ UNCHANGED exit_code
                  /\ IF success(code)
                     THEN /\ loc' = [loc EXCEPT !.folder_path = folder_path]
                          /\ pc' = "add_submodule.update"
                     ELSE submodule_failed(FailedToRunProcess(
                              <<"git submodule add", " ">> \o loc.repo \o <<" ">>
                              \o folder_path, code))

\* an add_submodule that returns the failure of the update with `?`
add_submodule_update_fatal ==
    /\ pc = "add_submodule.update"
    /\ UNCHANGED <<argv, stack, config, fs>>
    /\ \E spawned \in BOOLEAN, code \in ExitStatuses :
         IF ~spawned
         THEN /\ Panic("add_submodule: git submodule update")
              /\ UNCHANGED loc
         ELSE /\ trace' = Append(trace,
                    Ran("git submodule update --init --recursive", <<>>, code))
              /\ UNCHANGED exit_code
              /\ IF success(code)
                 THEN /\ pc' = "add_submodule.checkout"
                      /\ UNCHANGED loc
                 ELSE submodule_failed(FailedToRunProcess(
                          <<"git submodule update --init --recursive">>, code))

\* lines 239-252: git submodule update --init --recursive; a failure is displayed
add_submodule_update ==
    /\ pc = "add_submodule.update"
    /\ UNCHANGED <<argv, stack, config, loc, fs>>
    /\ \E spawned \in BOOLEAN, code \in ExitStatuses :
         IF ~spawned
         THEN Panic("add_submodule: git submodule update")
         ELSE /\ trace' = trace
                    \o <<Ran("git submodule update --init --recursive", <<>>, code)>>
                    \o (IF success(code) THEN <<>>
                        ELSE <<Displayed(FailedToRunProcess(
                                 <<"git submodule update --init --recursive">>, code))>>)
              /\ pc' = "add_submodule.checkout"
              /\ UNCHANGED exit_code

\* where add_submodule's Ok(folder_path) goes
submodule_added ==
    pc' = IF loc.dep_type = "Git Submodule"
          THEN "add_local_dependency_path" ELSE "add_cached_dependency.register"

\* lines 254-294: the checkout in the submodule's folder; a failure is displayed
add_submodule_checkout ==
    /\ pc = "add_submodule.checkout"
    /\ UNCHANGED <<argv, stack, config, loc, fs>>
    /\ LET cmd == checkout_command(loc.tag, loc.branch)
       IN  IF cmd = None
           THEN /\ submodule_added
                /\ UNCHANGED <<trace, exit_code>>
           ELSE \E spawned \in BOOLEAN, code \in ExitStatuses :
                  IF ~spawned
                  THEN Panic("add_submodule: git checkout")
                  ELSE /\ trace' = trace
                             \o <<Printed("Switching to"), Ran("git", cmd[1], code)>>
                             \o (IF success(code) THEN <<>>
                                 ELSE <<Displayed(FailedToRunProcess(
                                          <<"git checkout...">>, code))>>)
                       /\ submodule_added
                       /\ UNCHANGED exit_code

(***************************************************************************)
(* util.rs: get_cache and write_cache (imported by dependencies.rs; their  *)
(* text is not part of the sources at hand).  The cache document is a list *)
(* of CacheSubmodule entries; reading or writing it can fail.              *)
(***************************************************************************)
CachePath == <<"cmakemake", "/", "cache.toml">>

get_cache(io_ok) ==
    IF io_ok THEN [ok |-> TRUE, err |-> NoError, val |-> fs.cache]
    ELSE [ok |-> FALSE, err |-> CannotOpenFile(CachePath), val |-> <<>>]

write_cache(cache, io_ok) ==
    IF io_ok THEN [ok |-> TRUE, err |-> NoError, val |-> cache]
    ELSE [ok |-> FALSE, err |-> FailedToCreateFile(CachePath), val |-> fs.cache]

(***************************************************************************)
(* dependencies.rs: add_git_submodule and cache_git_submodule.             *)
(***************************************************************************)
\* lines 159-184: the prompts for the repository, the tag and the branch
add_git_submodule ==
    /\ pc = "add_git_submodule"
    /\ UNCHANGED <<argv, stack, config, fs>>
    /\ \E cancelled \in BOOLEAN, repo \in Repos, tag \in Tags, branch \in Branches :
         IF cancelled
         THEN /\ Panic("add_git_submodule: prompt")
              /\ UNCHANGED loc
         ELSE /\ loc' = [loc EXCEPT !.repo = repo, !.tag = tag, !.branch = branch]
              /\ pc' = "add_submodule"
              /\ UNCHANGED <<trace, exit_code>>

\* lines 189-203: "Save dependency to cache?"
add_git_submodule_cache ==
    /\ pc = "add_git_submodule.cache"
    /\ UNCHANGED <<argv, stack, config, loc, fs>>
    /\ \E answer \in {"cancelled", "yes", "no"} :
         IF answer = "cancelled"
         THEN Panic("add_git_submodule: prompt")
         ELSE /\ pc' = IF answer = "yes" THEN "cache_git_submodule" ELSE "write_config"
              /\ trace' = Append(trace, Answered("Save dependency to cache?", answer))
              /\ UNCHANGED exit_code

\* a cache that keeps only the entry pushed last
pushed_cache_alone(cache, submodule) ==
    <<CacheSubmodule(cache_entry_name(submodule.repo, submodule.tag, submodule.branch),
                     submodule)>>

\* lines 300-312: the entry pushed to the cache
pushed_cache(cache, submodule) ==
    Append(cache, CacheSubmodule(
        cache_entry_name(submodule.repo, submodule.tag, submodule.branch), submodule))

\* lines 298-312: get_cache()?, the name, the push
cache_git_submodule ==
    /\ pc = "cache_git_submodule"
    /\ UNCHANGED <<argv, stack, config, fs, trace, exit_code>>
    /\ \E io_ok \in BOOLEAN :
         LET r == get_cache(io_ok)
         IN  IF r.ok
             THEN /\ loc' = [loc EXCEPT !.cache =
                        pushed_cache(r.val, GitSubmodule(loc.repo, loc.tag, loc.branch,
                                                         loc.local_setup))]
                  /\ pc' = "cache_git_submodule.write"
             ELSE Propagate(r.err)

\* line 314: write_cache(cache)?
cache_git_submodule_write ==
    /\ pc = "cache_git_submodule.write"
    /\ UNCHANGED <<argv, stack, config, exit_code>>
    /\ \E io_ok \in BOOLEAN :
         LET r == write_cache(loc.cache, io_ok)
         IN  IF r.ok
             THEN /\ fs' = [fs EXCEPT !.cache = r.val]
                  /\ trace' = Append(trace, Wrote("cache"))
                  /\ pc' = "write_config"
                  /\ UNCHANGED loc
             ELSE /\ Propagate(r.err)
                  /\ UNCHANGED <<fs, trace>>

(***************************************************************************)
(* dependencies.rs: add_cached_dependency.                                 *)
(***************************************************************************)
\* lines 319-324
add_cached_dependency ==
    /\ pc = "add_cached_dependency"
    /\ UNCHANGED <<argv, stack, config, fs, exit_code>>
    /\ \E io_ok \in BOOLEAN :
         LET r == get_cache(io_ok)
         IN  IF ~r.ok
             THEN /\ Propagate(r.err)
                  /\ UNCHANGED trace
             ELSE IF r.val = <<>>
             THEN /\ trace' = Append(trace, Printed("No cached dependencies available."))
                  /\ pc' = "write_config"
                  /\ UNCHANGED loc
             ELSE /\ loc' = [loc EXCEPT !.cache = r.val]
                  /\ pc' = "add_cached_dependency.select"
                  /\ UNCHANGED trace

\* lines 326-331: inquire::MultiSelect ... .raw_prompt().unwrap(); the selection is
\* the chosen entries' indices, in the order of the list
add_cached_dependency_select ==
    /\ pc = "add_cached_dependency.select"
    /\ UNCHANGED <<argv, stack, config, fs>>
    /\ \E cancelled \in BOOLEAN, chosen \in SUBSET (1..Len(loc.cache)) :
         IF cancelled
         THEN /\ Panic("add_cached_dependency: prompt")
              /\ UNCHANGED loc
         ELSE /\ loc' = [loc EXCEPT !.selection = Pick([i \in 1..Len(loc.cache) |-> i], chosen),
                                    !.val = <<>>]
              /\ pc' = "add_cached_dependency.next"
              /\ UNCHANGED <<trace, exit_code>>

\* lines 333-342: the map over the selection takes the next entry, or collect() ends
add_cached_dependency_next ==
    /\ pc = "add_cached_dependency.next"
    /\ UNCHANGED <<argv, stack, config, fs, trace, exit_code>>
    /\ IF Len(loc.val) < Len(loc.selection)
       THEN LET submodule == loc.cache[loc.selection[Len(loc.val) + 1]].submodule
            IN  /\ loc' = [loc EXCEPT !.repo = submodule.repo, !.tag = submodule.tag,
                                      !.branch = submodule.branch,
                                      !.local_setup = submodule.local_setup]
                /\ pc' = "add_submodule"
       ELSE /\ pc' = "add_cached_dependency.report"
            /\ UNCHANGED loc

\* lines 344-351: the entry's local_setup is pushed, get_is_project_dependency asked
add_cached_dependency_register ==
    /\ pc = "add_cached_dependency.register"
    /\ UNCHANGED <<argv, stack, fs>>
    /\ \E answer \in {"cancelled", "yes", "no"} :
         IF answer = "cancelled"
         THEN /\ Panic("get_is_project_dependency: prompt")
              /\ UNCHANGED <<config, loc>>
         ELSE /\ config' = get_is_project_dependency(
                               push_local(config, loc.local_setup),
                               loc.local_setup.name, answer = "yes")
              /\ loc' = [loc EXCEPT !.val = Append(@, Ok)]
              /\ pc' = "add_cached_dependency.next"
              /\ UNCHANGED <<trace, exit_code>>

\* lines 355-357: the errors of the collected results, displayed in order
displayed_errors(val) ==
    Concat([i \in 1..Len(val) |-> IF val[i].ok THEN <<>> ELSE <<Displayed(val[i].err)>>])

\* lines 355-359
add_cached_dependency_report ==
    /\ pc = "add_cached_dependency.report"
    /\ UNCHANGED <<argv, stack, config, loc, fs, exit_code>>
    /\ trace' = trace \o displayed_errors(loc.val)
    /\ pc' = "write_config"

(***************************************************************************)
(* dependencies.rs: the names derived from a repository, on their own: the  *)
(* folder of add_submodule and the entry cache_git_submodule pushes, for    *)
(* every short text over the characters that matter to submodule_name.      *)
(***************************************************************************)
MaxRepoLen == 4

RepoChars == {"/", ".", "lib", "git"}

InitNames ==
    /\ pc = "derive_names"
    /\ argv = <<Some("add"), None>>
    /\ stack = <<>>
    /\ config = Unloaded
    /\ trace = <<>>
    /\ exit_code = None
    /\ fs = [config |-> NoDocument, cmake |-> NoFile, cache |-> <<>>,
             build |-> FALSE, ignore |-> FALSE]
    /\ \E repo \in SeqUpTo(RepoChars, MaxRepoLen) \cup Repos, tag \in Tags, branch \in Branches :
         loc = [InitLoc EXCEPT !.repo = repo, !.tag = tag, !.branch = branch]

derive_names ==
    /\ pc = "derive_names"
    /\ pc' = "derived"
    /\ loc' = [loc EXCEPT !.folder_path = submodule_folder_path(loc.repo),
                          !.cache = pushed_cache(<<>>, GitSubmodule(loc.repo, loc.tag,
                                                                    loc.branch, NoLocal))]
    /\ UNCHANGED <<argv, stack, config, fs, trace, exit_code>>

(***************************************************************************)
(* main.rs: write_source_files and write_include_dirs on their own, for    *)
(* every ProjectFiles value built from a few groups.                       *)
(***************************************************************************)
MaxGroups == 2

MaxExclude == 2

SourceGroups ==
    { <<"File", << <<"main.cpp">> >> >>, <<"Glob", << <<"inc">> >> >>, <<"Glob", <<>> >>,
      <<"GlobRecurse", <<Dot>> >>, <<"GlobRecurse", <<Dot, <<"inc">> >> >> }

IncludeGroups ==
    { <<>>, << <<"Public", <<Dot>> >> >>, << <<"Interface", <<>> >> >>,
      << <<"Public", << <<"inc">> >> >>, <<"Interface", <<Dot>> >> >> }

ResolverInputs ==
    {[source_files |-> sf, include_dirs |-> id, exclude_files |-> ex] :
        sf \in SeqUpTo(SourceGroups, MaxGroups), id \in IncludeGroups,
        ex \in SeqUpTo({<<"old.cpp">>, <<"main.cpp">>}, MaxExclude)}

\* the files to resolve are config.cmake.files, the base path is loc.folder_path
InitFiles ==
    /\ pc = "resolve_files"
    /\ argv = <<Some("cmake"), None>>
    /\ stack = <<>>
    /\ trace = <<>>
    /\ exit_code = None
    /\ fs = [config |-> NoDocument, cmake |-> NoFile, cache |-> <<>>,
             build |-> FALSE, ignore |-> FALSE]
    /\ \E files \in ResolverInputs, path \in {<<"lib">>, <<"src">>} :
         /\ config = [Unloaded EXCEPT !.cmake.files = files]
         /\ loc = [InitLoc EXCEPT !.folder_path = path]

\* the statements written for the variable SOURCES and the target lib
resolve_files ==
    /\ pc = "resolve_files"
    /\ pc' = "resolved"
    /\ fs' = [fs EXCEPT !.cmake =
                 File(<<>>, write_source_files(<<"SOURCES">>, loc.folder_path, config.cmake.files)
                            \o write_include_dirs(<<"lib">>, loc.folder_path,
                                                  config.cmake.files))]
    /\ UNCHANGED <<argv, stack, config, loc, trace, exit_code>>

(***************************************************************************)
(* The specifications.                                                     *)
(***************************************************************************)
Next ==
    \/ main \/ display_error \/ new_project
    \/ generate_cmake \/ generate_cmake_open \/ generate_cmake_write
    \/ build_project \/ build_project_check \/ build_project_configure
    \/ build_project_compile
    \/ run_project \/ run_project_args \/ run_project_exec
    \/ clean_project \/ add_ignore
    \/ add_dependency \/ add_dependency_select \/ write_config
    \/ add_find_dependency \/ add_local_dependency \/ add_local_dependency_path
    \/ add_git_submodule \/ add_submodule \/ add_submodule_update
    \/ add_submodule_checkout \/ add_git_submodule_cache
    \/ cache_git_submodule \/ cache_git_submodule_write
    \/ add_cached_dependency \/ add_cached_dependency_select
    \/ add_cached_dependency_next \/ add_cached_dependency_register
    \/ add_cached_dependency_report

\* one invocation of the program, any command
Spec == Init /\ [][Next]_vars

NextGen ==
    \/ main \/ generate_cmake \/ generate_cmake_open \/ generate_cmake_write
    \/ display_error

\* the command cmake on every configuration of GenConfigs
SpecGen == InitGen /\ [][NextGen]_vars

NextNames == derive_names

SpecNames == InitNames /\ [][NextNames]_vars

NextFiles == resolve_files

SpecFiles == InitFiles /\ [][NextFiles]_vars

(***************************************************************************)
(* Properties.                                                             *)
(***************************************************************************)
Last(s) == s[Len(s)]

\* the events of the listed kind and name, by their place in the trace
EventsAt(kind, what) == {i \in 1..Len(trace) : trace[i].kind = kind /\ trace[i].what = what}

\* CMakeLists.txt is there and its first line is "# <hash of the configuration on disk>\n"
ScriptIsFresh ==
    /\ fs.cmake.exists
    /\ fs.cmake.first_line = <<"#", " ">> \o Decimal(config_hash(fs.config.doc)) \o <<"\n">>

\* the step in which `cmake -B build` is started
BuildToolInvoked ==
    /\ pc = "build_project.configure"
    /\ Len(trace') = Len(trace) + 1
    /\ Last(trace').kind = "run"
    /\ Last(trace').what = "cmake -B build"

C1_Step ==
    /\ BuildToolInvoked => ScriptIsFresh
    /\ (pc = "build_project.check" /\ pc' = "generate_cmake") => ~ScriptIsFresh
    /\ (pc = "build_project.check" /\ pc' = "build_project.configure") => ScriptIsFresh
    /\ (pc = "build_project.check" /\ ~ScriptIsFresh)
          => pc' \in {"generate_cmake", "display_error", "exited"}

\* C1: whenever build starts the build tool, CMakeLists.txt exists and its first
\* line is the hash line of the current configuration; build regenerates the
\* script when it is absent or its first line differs, and goes straight on to
\* the build tool, without regenerating, when the first line matches.
C1_BuildToolSeesFreshScript == [][C1_Step]_vars

\* build found a script written for another configuration, regenerated it and
\* then started the build tool
C1_Witness ==
    /\ EventsAt("print", "warning: CMakeLists.txt out of date. Regenerating.") # {}
    /\ EventsAt("write", "CMakeLists.txt") # {}
    /\ EventsAt("run", "cmake -B build") # {}

\* the runs of `what` that ended with an unsuccessful exit status
FailedRuns(what) == {i \in EventsAt("run", what) : ~success(trace[i].code)}

\* C2: in the add-git-submodule workflow a failed `git submodule add` is fatal:
\* the workflow ends with FailedToRunProcess carrying the exit code of the tool,
\* and nothing comes after it: no update, no checkout, no registration of the
\* dependency, no write of the cache or of the configuration.
C2_FailedAddIsFatal ==
    loc.dep_type = "Git Submodule" =>
        \A i \in FailedRuns("git submodule add") :
            /\ pc \in {"display_error", "exited"}
            /\ ~loc.result.ok
            /\ loc.result.err.kind = "FailedToRunProcess"
            /\ loc.result.err.code = trace[i].code
            /\ \A j \in 1..Len(trace) :
                  /\ trace[j].kind = "run" => j = i
                  /\ trace[j].kind # "write"
                  /\ j > i => trace[j] = Displayed(loc.result.err)
            /\ config = fs.config.doc
            /\ pc = "exited" => Last(trace) = Displayed(loc.result.err)

\* the workflow has ended on a `git submodule add` that exited with status 1
C2_Witness ==
    /\ loc.dep_type = "Git Submodule"
    /\ pc = "exited"
    /\ \E i \in FailedRuns("git submodule add") : trace[i].code = Some(1)

\* where the workflow registers the dependency once add_submodule has returned
RegistrationStep ==
    IF loc.dep_type = "Git Submodule"
    THEN "add_local_dependency_path" ELSE "add_cached_dependency.register"

\* what the step adds to the trace
NewEvents == SubSeq(trace', Len(trace) + 1, Len(trace'))

\* the step ran a process that ended with an unsuccessful exit status
StepRunFailed == \E k \in 1..Len(NewEvents) :
                    NewEvents[k].kind = "run" /\ ~success(NewEvents[k].code)

\* the failure is displayed, and nothing else comes of it
OnlyDisplayed ==
    /\ Last(trace').kind = "error"
    /\ Last(trace').what = "FailedToRunProcess"
    /\ Last(trace').code = trace'[Len(trace') - 1].code
    /\ loc' = loc /\ config' = config /\ fs' = fs /\ stack' = stack

C3_Step ==
    /\ (pc = "add_submodule.update" /\ StepRunFailed)
          => pc' = "add_submodule.checkout" /\ OnlyDisplayed
    /\ (pc = "add_submodule.checkout" /\ StepRunFailed)
          => pc' = RegistrationStep /\ OnlyDisplayed
    /\ (pc = "add_submodule.checkout" /\ pc' # "exited")
          => /\ pc' = RegistrationStep
             /\ loc'.folder_path = <<"external", "/">> \o submodule_name(loc.repo)
             /\ (loc.tag # None \/ loc.branch # None)
                   => \E k \in 1..Len(NewEvents) :
                         NewEvents[k].kind = "run" /\ NewEvents[k].what = "git"

\* C3: once `git submodule add` has succeeded, a failed update or a failed
\* checkout is only displayed: the checkout is still attempted after a failed
\* update, add_submodule still returns external/<name>, and the workflow goes on
\* to register the dependency.
C3_LaterFailuresAreDisplayedOnly == [][C3_Step]_vars

\* the update and the checkout both failed, and the dependency was registered
C3_Witness ==
    /\ FailedRuns("git submodule update --init --recursive") # {}
    /\ FailedRuns("git") # {}
    /\ Len(config.dependencies.local) > Len(fs.config.doc.dependencies.local)

\* the k-th entry selected from the cache
Entry(k) == loc.cache[loc.selection[k]].submodule

\* the cached workflow is past its loop over the selection
CachedBatchEnded ==
    /\ loc.dep_type = "Pre-Cached"
    /\ \/ pc \in {"add_cached_dependency.report", "write_config", "display_error"}
       \/ pc = "exited" /\ exit_code = Some(0)

\* the displayed failures of `git submodule add`
DisplayedAddFailures ==
    {i \in EventsAt("error", "FailedToRunProcess") : trace[i].detail[1] = "git submodule add"}

\* C4: add_cached_dependency attempts every selected entry whatever became of the
\* entries before it; a failed entry does not end the batch, its error is
\* displayed only after all entries were attempted, and it appends nothing to
\* dependencies.local or project_dependencies, while every successful entry
\* appends its cached local_setup.
C4_BatchAttemptsEveryEntry ==
    CachedBatchEnded =>
        LET adds == Pick(trace, EventsAt("run", "git submodule add"))
            succeeded == {k \in 1..Len(loc.val) : loc.val[k].ok}
            setups == [k \in 1..Len(loc.selection) |-> Entry(k).local_setup]
            names == [k \in 1..Len(loc.selection) |-> Entry(k).local_setup.name]
            disk == fs.config.doc.dependencies
        IN  /\ Len(loc.val) = Len(loc.selection)
            /\ Len(adds) = Len(loc.selection)
            /\ \A k \in 1..Len(adds) :
                  /\ adds[k].detail = Entry(k).repo \o <<" ", "external", "/">>
                                         \o submodule_name(Entry(k).repo)
                  /\ loc.val[k].ok <=> success(adds[k].code)
            /\ \A i \in DisplayedAddFailures, j \in EventsAt("run", "git submodule add") : j < i
            /\ pc # "add_cached_dependency.report"
                  => Cardinality(DisplayedAddFailures) = Len(loc.val) - Cardinality(succeeded)
            /\ pc \in {"add_cached_dependency.report", "write_config"}
                  => /\ config.dependencies.local = disk.local \o Pick(setups, succeeded)
                     /\ \E asked \in SUBSET succeeded :
                           config.dependencies.project_dependencies
                               = disk.project_dependencies \o Pick(names, asked)

\* two entries were selected; the first failed, the second was added and registered
C4_Witness ==
    /\ CachedBatchEnded
    /\ pc = "write_config"
    /\ Len(loc.val) = 2
    /\ ~loc.val[1].ok
    /\ loc.val[2].ok

\* C5 as it was stated: the cached workflow never runs the checkout, even for an
\* entry that has a tag or a branch, and never writes the cache.
C5_CachedNeverChecksOut ==
    loc.dep_type = "Pre-Cached" => EventsAt("run", "git") = {} /\ EventsAt("write", "cache") = {}

C5_Step ==
    loc.dep_type = "Pre-Cached" =>
        /\ fs'.cache = fs.cache
        /\ (pc = "add_submodule.checkout" /\ pc' # "exited") =>
              LET entry == Entry(Len(loc.val) + 1)
                  ran == {k \in 1..Len(NewEvents) :
                            NewEvents[k].kind = "run" /\ NewEvents[k].what = "git"}
              IN  /\ ran # {} <=> (entry.tag # None \/ entry.branch # None)
                  /\ \A k \in ran :
                        LET words == {NewEvents[k].detail[n] : n \in 1..Len(NewEvents[k].detail)}
                        IN  /\ "checkout" \in words
                            /\ entry.tag # None <=> "tags/" \in words
                            /\ entry.tag # None => entry.tag[1][1] \in words
                            /\ entry.branch # None <=> "-b" \in words
                            /\ entry.branch # None => entry.branch[1][1] \in words

\* C5: the cached workflow runs the checkout for an entry exactly when the entry
\* has a tag or a branch, with the cached tag and branch, and it never changes the
\* cache document.
C5_CachedChecksOutWhatEntryPins == [][C5_Step]_vars

\* a cached entry with a tag was added again and its tag checked out
C5_Witness ==
    /\ loc.dep_type = "Pre-Cached"
    /\ pc = "write_config"
    /\ EventsAt("run", "git") # {}

\* the user accepted "Save dependency to cache?"
CachingAccepted(events) ==
    \E i \in 1..Len(events) : events[i] = Answered("Save dependency to cache?", "yes")

\* the entry the git-submodule workflow caches: CacheSubmodule{name, submodule}
NewCacheEntry ==
    [name |-> cache_entry_name(loc.repo, loc.tag, loc.branch),
     submodule |-> [repo |-> loc.repo, tag |-> loc.tag, branch |-> loc.branch,
                    local_setup |-> loc.local_setup]]

C6_Step ==
    /\ fs'.cache # fs.cache =>
          /\ loc.dep_type = "Git Submodule"
          /\ CachingAccepted(trace)
          /\ fs'.cache = fs.cache \o <<NewCacheEntry>>
          /\ fs'.config = fs.config
          /\ EventsAt("write", "CMakeMake.toml") = {}
          /\ NewEvents = <<Wrote("cache")>>
    /\ (fs'.config # fs.config /\ CachingAccepted(trace)) =>
          /\ EventsAt("write", "cache") # {}
          /\ fs'.cache = fs.cache
          /\ Last(fs.cache) = NewCacheEntry

\* C6: when caching is accepted in the git-submodule workflow, the cache document
\* is written, with the entries it had kept in order and exactly one entry
\* appended, strictly before the configuration document is written.
C6_CacheWrittenBeforeConfig == [][C6_Step]_vars

\* between the two writes: the new entry is in a cache that had entries already,
\* the configuration on disk does not have the dependency yet
C6_Witness ==
    /\ loc.dep_type = "Git Submodule"
    /\ pc = "write_config"
    /\ EventsAt("write", "cache") # {}
    /\ Len(fs.cache) > 1
    /\ Last(fs.cache) = NewCacheEntry
    /\ fs.config.doc # config

\* generate_cmake has written the whole script
Generated == EventsAt("write", "CMakeLists.txt") # {}

Body == fs.cmake.body

\* the link statements of the project target, by their place in the script
ProjectLinks ==
    {i \in 1..Len(Body) : Body[i].cmd = "target_link_libraries" /\ Body[i].args[1] = ProjectTarget}

\* C7: the generated script has the link statement of the project target, as its
\* last statement, if and only if project_dependencies is not empty; the statement
\* names the project dependencies in declared order, and no link statement without
\* libraries is ever written.
C7_LinkStatementIffDependencies ==
    Generated =>
        LET project_dependencies == fs.config.doc.dependencies.project_dependencies
        IN  /\ ProjectLinks # {} <=> project_dependencies # <<>>
            /\ \A i \in ProjectLinks :
                  /\ i = Len(Body)
                  /\ Body[i].args = <<ProjectTarget, <<"PRIVATE">> >> \o project_dependencies
            /\ \A i \in 1..Len(Body) :
                  Body[i].cmd = "target_link_libraries" => Len(Body[i].args) > 2

\* a script generated for two different project dependencies
C7_Witness ==
    /\ Generated
    /\ Len(fs.config.doc.dependencies.project_dependencies) = 2
    /\ fs.config.doc.dependencies.project_dependencies[1]
           # fs.config.doc.dependencies.project_dependencies[2]
    /\ ProjectLinks # {}

\* the lists of sources the script binds: the variable, the base path, the files
SourceLists ==
    LET c == fs.config.doc
        locals == c.dependencies.local
    IN  {[name |-> <<"SOURCES">>, path |-> <<"src">>, files |-> c.cmake.files]}
        \cup {[name |-> to_uppercase(locals[k].name) \o <<"_SOURCES">>,
                path |-> locals[k].path, files |-> locals[k].local_type.files] :
                   k \in {n \in 1..Len(locals) : locals[n].local_type.tag = "Source"}}

\* the script has a discovery statement of the mode over the directories
Discovers(mode, path, dirs) ==
    \E i \in 1..Len(Body) :
        /\ Body[i].cmd = "file"
        /\ Body[i].args[1] = <<mode>>
        /\ SubSeq(Body[i].args, 3, Len(Body[i].args)) = GlobPatterns(path, dirs)

\* C8: whatever other groups there are, the directories of the GlobRecurse groups
\* are discovered by a recursive statement (GLOB_RECURSE) and those of the Glob
\* groups by a non-recursive one (GLOB).
C8_DiscoveryModeFollowsGroup ==
    Generated =>
        \A l \in SourceLists :
            LET glob_dirs == GroupPaths(l.files.source_files, "Glob")
                glob_recurse_dirs == GroupPaths(l.files.source_files, "GlobRecurse")
            IN  /\ glob_dirs # <<>> => Discovers("GLOB", l.path, glob_dirs)
                /\ glob_recurse_dirs # <<>>
                      => Discovers("GLOB_RECURSE", l.path, glob_recurse_dirs)

\* what a statement of the script belongs to: the find_package statements, a
\* local dependency's block, the binding of SOURCES, the executable, its link
Group(s) ==
    CASE s.cmd = "find_package" -> 1
      [] s.cmd = "add_executable" -> 4
      [] s.cmd = "target_link_libraries" /\ s.args[1] = ProjectTarget -> 5
      [] s.cmd = "set" /\ s.args[1][1] = "SOURCES" -> 3
      [] s.cmd \in {"file", "list"} /\ s.args[2][1] = "SOURCES" -> 3
      [] s.cmd = "set" /\ s.args[1][1] \in {"CMAKE_BUILD_TYPE", "CMAKE_EXPORT_COMPILE_COMMANDS"} -> 0
      [] s.cmd \in {"set", "file", "list", "add_subdirectory", "add_library",
                    "target_include_directories", "target_link_libraries"} -> 2
      [] OTHER -> 0

\* the place of a statement within its local dependency's block: a variable
\* assignment, a binding of the dependency's sources, the declaration of the
\* dependency, a property of the declared target
Phase(s) ==
    CASE s.cmd \in {"add_subdirectory", "add_library"} -> 3
      [] s.cmd \in {"target_include_directories", "target_link_libraries"} -> 4
      [] s.cmd \in {"file", "list"} -> 2
      [] s.cmd = "set" /\ Last(s.args[1]) = "_SOURCES" -> 2
      [] OTHER -> 1

\* the variable assignments and the declaration of a local dependency, as the
\* configuration has them
DeclaredBlock(local) ==
    [i \in 1..Len(local.variables) |->
         <<"set", local.variables[i][1], local.variables[i][2]>>]
    \o << <<IF local.local_type.tag = "CMake" THEN "add_subdirectory" ELSE "add_library",
            IF local.local_type.tag = "CMake" THEN local.path ELSE local.name, <<>> >> >>

\* the same of a statement of the script
WrittenMark(s) ==
    <<s.cmd, s.args[1], IF s.cmd = "set" THEN s.args[2] ELSE <<>> >>

\* C9: the statements of the generated script come in the fixed order: the
\* find_package statements in declared order, the blocks of the local
\* dependencies in declared order, each with its variable assignments in declared
\* order before the dependency's own statements, the binding of SOURCES, the
\* executable, the link statement; no statement of a later group comes before
\* one of an earlier group.
C9_FixedEmissionOrder ==
    Generated =>
        LET dependencies == fs.config.doc.dependencies
            found == Pick(Body, {i \in 1..Len(Body) : Group(Body[i]) = 1})
            block == Pick(Body, {i \in 1..Len(Body) : Group(Body[i]) = 2})
            marks == {n \in 1..Len(block) : Phase(block[n]) \in {1, 3}}
            written == Pick([n \in 1..Len(block) |-> WrittenMark(block[n])], marks)
        IN  /\ \A i, j \in 1..Len(Body) :
                  (i < j /\ Group(Body[i]) # 0 /\ Group(Body[j]) # 0)
                      => Group(Body[i]) <= Group(Body[j])
            /\ [k \in 1..Len(found) |-> found[k].args[1]]
                  = [k \in 1..Len(dependencies.find) |-> dependencies.find[k].name]
            /\ written = Concat([k \in 1..Len(dependencies.local) |->
                                     DeclaredBlock(dependencies.local[k])])
            /\ \A n \in 1..(Len(block) - 1) :
                  Phase(block[n]) \in {1, 2} => Phase(block[n + 1]) >= Phase(block[n])
            /\ Cardinality({i \in 1..Len(Body) : Group(Body[i]) = 4}) = 1

\* a script with every group: two find_package statements, two blocks of which
\* the second has variables and sources of its own, SOURCES, the link statement
C9_Witness ==
    /\ Generated
    /\ Len(fs.config.doc.dependencies.find) = 2
    /\ Len(fs.config.doc.dependencies.local) = 2
    /\ fs.config.doc.dependencies.local[2].variables # <<>>
    /\ fs.config.doc.dependencies.local[2].local_type.files.source_files # <<>>
    /\ fs.config.doc.cmake.files.source_files # <<>>
    /\ ProjectLinks # {}

\* C10 as it was stated: whatever happens, the process exits with code 0.
C10_AlwaysExitsZero == pc = "exited" => exit_code = Some(0)

\* the process ended in a panic
Panicking == trace # <<>> /\ Last(trace).kind = "panic"

\* C10: a failure returned as a ProjectError (no configuration, a process that
\* exits unsuccessfully, a file that cannot be opened or created, an unknown
\* argument) is displayed and the process exits with code 0; the process ends
\* with another code only by a panic, and then with 101.
C10_ErrorsExitZeroPanicsDoNot ==
    pc = "exited" =>
        /\ exit_code = IF Panicking THEN Some(101) ELSE Some(0)
        /\ (~loc.result.ok /\ ~Panicking)
              => exit_code = Some(0) /\ Last(trace) = Displayed(loc.result.err)

\* an external process failed, the error was displayed, the process exited with 0
C10_Witness ==
    /\ pc = "exited"
    /\ exit_code = Some(0)
    /\ ~loc.result.ok
    /\ loc.result.err.kind = "FailedToRunProcess"
    /\ Last(trace) = Displayed(loc.result.err)

\* the command of this invocation, as main matches it
Command == IF argv[1] = None THEN "" ELSE to_lowercase(argv[1][1])

\* events that are actions of a command: a process run, a file written or removed
ActionEvents == {i \in 1..Len(trace) : trace[i].kind \in {"run", "write", "remove"}}

\* C11 as it was stated: an unknown subcommand and an unknown argument of run or
\* clean both print an error and then the help text, and nothing of the command
\* is done.
C11_UnknownInputPrintsHelp ==
    (pc = "exited" /\ (EventsAt("print", "Unknown command") # {}
                          \/ EventsAt("error", "UnknownArgument") # {}))
        => EventsAt("print", "help") # {} /\ ActionEvents = {}

\* C11: an unknown subcommand prints "Unknown command" and then the help text; an
\* unknown argument of run or clean is reported as the UnknownArgument error,
\* without the help text; in both cases nothing of the command is done: no
\* process is run, no file is written or removed.
C11_UnknownArgumentIsOnlyAnError ==
    pc = "exited" =>
        /\ Command \notin {"", "help", "new", "add", "cmake", "build", "run", "ignore", "clean"}
              => trace = <<Printed("Unknown command"), Printed("help")>>
        /\ \A i \in EventsAt("error", "UnknownArgument") :
              /\ Command \in {"run", "clean"}
              /\ i = Len(trace)
              /\ trace[i].detail = argv[2]
              /\ EventsAt("print", "help") = {}
              /\ ActionEvents = {}
        /\ (Command = "run" /\ argv[2] \notin {None, Some("skip_build")} /\ ~Panicking)
              => ~loc.result.ok /\ ActionEvents = {}
        /\ (Command = "clean" /\ argv[2] \notin {None, Some("all")})
              => /\ ~loc.result.ok /\ ActionEvents = {}
                 /\ fs.config.exists => Last(trace) = Displayed(UnknownArgument(argv[2][1]))

\* clean was given an unknown argument in a project that has a build directory:
\* the error was displayed and the directory is still there
C11_Witness ==
    /\ pc = "exited"
    /\ Command = "clean"
    /\ EventsAt("error", "UnknownArgument") # {}
    /\ fs.build

C12_Step ==
    (~fs.config.exists
     /\ Command \in {"add", "cmake", "build", "run", "clean", "ignore"})
        => /\ fs' = fs
           /\ \A k \in 1..Len(NewEvents) : NewEvents[k].kind \in {"print", "error"}
           /\ pc' = "exited" => /\ Last(trace') = Displayed(InvalidProjectDirectory)
                                 /\ loc'.result = Err(InvalidProjectDirectory)

\* C12: without CMakeMake.toml in the current directory, add, cmake, build, run,
\* clean and ignore end with the InvalidProjectDirectory error and before that
\* touch nothing: no file or directory is created, truncated or removed, no
\* process is run.
C12_NoConfigNoSideEffect == [][C12_Step]_vars

\* build ended in the error in a directory that has a CMakeLists.txt and a build
\* directory but no CMakeMake.toml
C12_Witness ==
    /\ pc = "exited"
    /\ Command = "build"
    /\ ~fs.config.exists
    /\ fs.cmake.exists
    /\ Last(trace) = Displayed(InvalidProjectDirectory)

\* C13: when a dependency-adding command has saved the configuration, the
\* document on disk is exactly the serialization of the configuration in memory:
\* nothing of the previous content is left in it.
C13_SavedDocumentIsTheSerialization ==
    (Command = "add" /\ EventsAt("write", "CMakeMake.toml") # {})
        => /\ fs.config.exists
           /\ fs.config.doc = config
           /\ document_len(fs.config) = serialized_len(config)

\* the runs of any process
Runs == {i \in 1..Len(trace) : trace[i].kind = "run"}

\* build announced that it regenerates the script
RegenerationStarted ==
    EventsAt("print", "warning: CMakeLists.txt out of date. Regenerating.")
    \cup EventsAt("print", "warning: CMakeLists.txt doesn't exist")

\* C14: the build/run pipeline stops at the first required step that fails: the
\* build tool is not started when the regeneration of the script did not
\* complete, `cmake --build build` is not run after an unsuccessful
\* `cmake -B build`, and run without skip_build executes the binary only after
\* both have succeeded; with skip_build the binary is executed with no staleness
\* check, no regeneration and no build before it.
C14_PipelineStopsAtFailure ==
    /\ \A i \in FailedRuns("cmake -B build") \cup FailedRuns("cmake --build build") :
          \A j \in Runs : j <= i
    /\ \A i \in EventsAt("run", "cmake -B build") :
          \A j \in RegenerationStarted :
              \E k \in EventsAt("write", "CMakeLists.txt") : j < k /\ k < i
    /\ \A i \in EventsAt("run", "cmake --build build") :
          \E j \in EventsAt("run", "cmake -B build") : j < i /\ success(trace[j].code)
    /\ \A i \in EventsAt("run", "./build/") :
          /\ Command = "run"
          /\ argv[2] = Some("skip_build")
                => /\ Runs = {i}
                   /\ EventsAt("write", "CMakeLists.txt") = {}
                   /\ EventsAt("print", "Building Project") = {}
                   /\ RegenerationStarted = {}
          /\ argv[2] # Some("skip_build")
                => \E j \in EventsAt("run", "cmake --build build") :
                      j < i /\ success(trace[j].code)
    /\ (pc = "exited" /\ Command = "run" /\ argv[2] = Some("skip_build")
          /\ loc.result.ok /\ ~Panicking)
          => EventsAt("run", "./build/") # {}

\* run, without skip_build, ended on an unsuccessful `cmake --build build`
C14_Witness ==
    /\ pc = "exited"
    /\ Command = "run"
    /\ argv[2] = None
    /\ FailedRuns("cmake --build build") # {}

\* n is the last '/'-delimited segment of repo, cut at its first '.'
IsDerivedName(n, repo) ==
    /\ \A k \in 1..Len(n) : n[k] \notin {"/", "."}
    /\ \E a \in 0..Len(repo) :
          /\ a > 0 => repo[a] = "/"
          /\ \A k \in (a + 1)..Len(repo) : repo[k] # "/"
          /\ Len(n) <= Len(repo) - a
          /\ n = SubSeq(repo, a + 1, a + Len(n))
          /\ a + Len(n) < Len(repo) => repo[a + Len(n) + 1] = "."

\* C15: the name derived from a repository is its last '/'-delimited segment cut
\* at the first '.' ("Lib" for https://github.com/org/Lib.Name.git, "lib" for
\* https://host/path/lib); the folder of the submodule is external/<name>, and
\* the name of the cache entry is <name>, then " - tags/<tag>" if there is a tag,
\* then " - branch/<branch>" if there is a branch.
C15_DerivedNames ==
    pc = "derived" =>
        LET n == SubSeq(loc.folder_path, 3, Len(loc.folder_path))
        IN  /\ Len(loc.folder_path) >= 2
            /\ SubSeq(loc.folder_path, 1, 2) = <<"external", "/">>
            /\ IsDerivedName(n, loc.repo)
            /\ loc.repo = RepoLibName => n = <<"Lib">>
            /\ loc.repo = RepoLib => n = <<"lib">>
            /\ Len(loc.cache) = 1
            /\ loc.cache[1].name =
                  CASE loc.tag = None /\ loc.branch = None -> n
                    [] loc.tag # None /\ loc.branch = None -> n \o <<" - tags/">> \o loc.tag[1]
                    [] loc.tag = None /\ loc.branch # None
                         -> n \o <<" - branch/">> \o loc.branch[1]
                    [] OTHER -> n \o <<" - tags/">> \o loc.tag[1]
                                  \o <<" - branch/">> \o loc.branch[1]

\* the names of https://github.com/org/Lib.Name.git with a tag and a branch
C15_Witness ==
    /\ pc = "derived"
    /\ loc.repo = RepoLibName
    /\ loc.tag # None
    /\ loc.branch # None
    /\ loc.cache[1].name = <<"Lib", " - tags/", "v1", " - branch/", "dev">>

\* the statements the resolver wrote for the variable SOURCES
SourceStatements ==
    Pick(Body, {i \in 1..Len(Body) : Body[i].cmd \in {"set", "file", "list"}})

\* the removal statements among them, by their place
Removals ==
    {i \in 1..Len(SourceStatements) :
        /\ SourceStatements[i].cmd = "list"
        /\ SourceStatements[i].args[1] = <<"REMOVE_ITEM">>}

\* the one removal statement, last, naming the excluded paths under the base path
OneTrailingRemoval ==
    LET files == config.cmake.files
    IN  /\ Removals = {Len(SourceStatements)}
        /\ Last(SourceStatements).args =
              << <<"REMOVE_ITEM">>, <<"SOURCES">> >>
              \o [i \in 1..Len(files.exclude_files) |->
                     <<"\"">> \o loc.folder_path \o <<"/">> \o files.exclude_files[i] \o <<"\"">>]

\* C16 as it was stated: whenever exclude_files is not empty the resolver writes
\* exactly one removal statement, as its last statement for the variable, naming
\* the excluded paths in declared order; with an empty exclude_files it writes none.
C16_RemovalForEveryExclude ==
    pc = "resolved" =>
        IF config.cmake.files.exclude_files # <<>> THEN OneTrailingRemoval ELSE Removals = {}

\* C16: the resolver writes exactly one removal statement, last and naming the
\* excluded paths as <base>/<path> in declared order, when exclude_files and
\* source_files are both not empty; with an empty exclude_files, or an empty
\* source_files, it writes no removal statement.
C16_RemovalWhenSourcesAndExclude ==
    pc = "resolved" =>
        IF config.cmake.files.exclude_files # <<>> /\ config.cmake.files.source_files # <<>>
        THEN OneTrailingRemoval
        ELSE Removals = {}

\* two excluded files removed after a set and a discovery statement
C16_Witness ==
    /\ pc = "resolved"
    /\ Len(config.cmake.files.exclude_files) = 2
    /\ Len(SourceStatements) >= 3
    /\ Removals = {Len(SourceStatements)}

\* the statements of the script that bind variable v, by their place
Binds(v) ==
    {i \in 1..Len(Body) :
        \/ Body[i].cmd = "set" /\ Body[i].args[1] = v
        \/ Body[i].cmd = "file" /\ Body[i].args[2] = v}

\* C17: for every local dependency of kind Source the script declares an
\* interface-only library exactly when no statement binds <NAME>_SOURCES, and
\* otherwise a library made of ${<NAME>_SOURCES}; no add_library refers to a
\* variable that no earlier statement has bound.
C17_LibraryOnlyOfBoundSources ==
    Generated =>
        LET locals == fs.config.doc.dependencies.local
        IN  /\ \A k \in 1..Len(locals) :
                  locals[k].local_type.tag = "Source" =>
                      LET v == to_uppercase(locals[k].name) \o <<"_SOURCES">>
                      IN  \E i \in 1..Len(Body) :
                             /\ Body[i].cmd = "add_library"
                             /\ Body[i].args[1] = locals[k].name
                             /\ Body[i].args[2] =
                                   IF Binds(v) = {} THEN <<"INTERFACE">> ELSE <<"${">> \o v \o <<"}">>
            /\ \A i \in 1..Len(Body), k \in 1..Len(locals) :
                  LET v == to_uppercase(locals[k].name) \o <<"_SOURCES">>
                  IN  (Body[i].cmd = "add_library" /\ Body[i].args[2] = <<"${">> \o v \o <<"}">>)
                          => \E j \in Binds(v) : j < i

\* the include-directory statement the project target would have for a visibility
ProjectIncludes(visibility, mode) ==
    write_include_type(ProjectTarget, <<"src">>, visibility,
                       GroupPaths(fs.config.doc.cmake.files.include_dirs, mode))

\* C18: when the include_dirs of the project's own files have a non-empty Public
\* or Interface group, the generated script declares those directories, resolved
\* against src, for the project target, after the blocks of the local
\* dependencies and before the final link statement.
C18_ProjectIncludeDirsWritten ==
    Generated =>
        \A m \in {<<"PUBLIC", "Public">>, <<"INTERFACE", "Interface">>} :
            ProjectIncludes(m[1], m[2]) # <<>> =>
                \E i \in 1..Len(Body) :
                    /\ Body[i] = ProjectIncludes(m[1], m[2])[1]
                    /\ \A j \in 1..Len(Body) :
                          /\ Body[j] = Comment("Project Files:") => j < i
                          /\ j \in ProjectLinks => i < j

\* the names of the entries of dependencies.find and dependencies.local
EntryNames(c) ==
    {c.dependencies.find[i].name : i \in 1..Len(c.dependencies.find)}
    \cup {c.dependencies.local[i].name : i \in 1..Len(c.dependencies.local)}

\* every project dependency names an entry of the configuration
NoDangling(c) ==
    \A i \in 1..Len(c.dependencies.project_dependencies) :
        c.dependencies.project_dependencies[i] \in EntryNames(c)

C19_Step ==
    (NoDangling(fs.config.doc) /\ NoDangling(config))
        => (NoDangling(fs.config.doc') /\ NoDangling(config'))

\* C19: no step of the tool makes a project dependency dangle: if every name of
\* project_dependencies names an entry of dependencies.find or dependencies.local,
\* in the configuration in memory and in the saved document, the same is true after
\* the step; a newly created configuration has empty lists, so after any sequence
\* of add operations, succeeding or failing, no project dependency dangles.
C19_NoDanglingProjectDependency == [][C19_Step]_vars

\* an add command has saved a configuration with more project dependencies than
\* the document had before, none of them dangling
C19_Witness ==
    /\ Command = "add"
    /\ pc = "exited"
    /\ EventsAt("write", "CMakeMake.toml") # {}
    /\ config.dependencies.project_dependencies # <<>>
    /\ NoDangling(fs.config.doc)
    /\ fs.config.doc = config
    /\ Len(config.dependencies.local) > 1

\* the number of entries of dependencies.find and dependencies.local
EntryCount(c) == Len(c.dependencies.find) + Len(c.dependencies.local)

C20_Step ==
    (\E i \in (Len(trace) + 1)..Len(trace') :
         trace'[i] = Printed("Successfully added dependency"))
        => /\ EntryCount(config) > EntryCount(fs.config.doc)
           /\ fs'.config.doc = config

\* C20: the add command prints "Successfully added dependency" only in a step that
\* saves a configuration with at least one entry more than the document had when
\* the command started; in particular not when the cache is empty and not when
\* every selected cache entry failed.
C20_SuccessOnlyIfAppended == [][C20_Step]_vars

\* the caching question of the git-submodule workflow was answered: the submodule
\* is on disk and its LocalDependency is in the configuration in memory
CachingAnswered ==
    \E i \in 1..Len(trace), a \in {"yes", "no"} :
        trace[i] = Answered("Save dependency to cache?", a)

\* writing CMakeMake.toml itself failed
ConfigWriteFailed ==
    \E i \in 1..Len(trace) :
        trace[i].kind = "error" /\ trace[i].detail = <<"CMakeMake.toml">>

\* C21: in the git-submodule workflow, once the submodule is on disk and its
\* LocalDependency is in the configuration in memory, the command does not end
\* before CMakeMake.toml is written with that dependency, whether caching was
\* declined, succeeded, or failed to read or write the cache document.
C21_ConfigWrittenWhateverCaching ==
    (pc = "exited" /\ loc.dep_type = "Git Submodule" /\ CachingAnswered
        /\ ~ConfigWriteFailed)
        => /\ EventsAt("write", "CMakeMake.toml") # {}
           /\ fs.config.doc = config
           /\ \E k \in 1..Len(config.dependencies.local) :
                  config.dependencies.local[k] = loc.local_setup

====
